---- MODULE Spec2Model ----
(***************************************************************************)
(* Model of the beat / flash detector of analyze_beats.py.                 *)
(*                                                                         *)
(* The pure functions of the script (merge_events, the event detection of  *)
(* detect_round_events, _build_grid, the region location) become operators *)
(* computed the way the code computes them.  Each has a specification whose*)
(* Init draws the inputs from bounded sets and whose action applies the    *)
(* function and stores its result.                                         *)
(*                                                                         *)
(* Numbers.  Python floats are modelled by exact rational arithmetic on    *)
(* integers: timestamps are whole milliseconds, signal samples are whole   *)
(* numbers, thresholds are kept in units of 1/U so that medians, MADs and  *)
(* interpolated percentiles are exact.  Sequences are 1-based here and     *)
(* 0-based in the code: frame f of a series is element f + 1.              *)
(***************************************************************************)
EXTENDS Integers, Sequences, FiniteSets, TLC

VARIABLES
    pc,            \* "start" before the function has run, "done" after
    \* merge_events
    audio_ms,      \* argument: audio onset timestamps (ms)
    visuals,       \* argument: sequence of VisualEvent
    tolerance_ms,  \* argument
    output,        \* returned list of (ts, event, detail) rows
    \* detect_round_events, after the extraction loop
    args,          \* keyword arguments: expect_rounds, cluster_gap_ms, green_k,
                   \* appear_diff_k, shuffle_k, appear_min_ms, force_shuffle
    fps,           \* frames per second of the capture
    green_sig,     \* per tile: border-green count of every frame
    tile_diffs,    \* per tile: mean abs difference of consecutive frames
    diffs,         \* mean abs difference over the union box
    green_events,  \* local green_events after the rising-edge loop: (frame, tile)
    clusters_found,\* local clusters after the clustering loop
    clusters,      \* local clusters after clusters[:expect_rounds]
    events,        \* returned list of VisualEvent
    \* _build_grid and the region location at the start of detect_round_events
    width,         \* frame width  (argument of _build_grid / CAP_PROP_FRAME_WIDTH)
    height,        \* frame height
    cols,          \* argument of _build_grid
    rows,          \* argument of _build_grid
    pad,           \* argument of _build_grid, a fraction <<numerator, denominator>>
    boxes,         \* list returned by _build_grid
    video,         \* the file: whether each capture opens, and the contour
                   \* bounding boxes cv2 finds in each frame's crop
    grid_hint,     \* --grid of the command line, <<cols, rows>>
    rects,         \* local rects of detect_round_events after line 164
    \* the extraction loop of detect_round_events (lines 171-204)
    source,        \* the frames the capture delivers, in order
    cap_pos,       \* number of frames the capture has delivered so far
    prev_frame,    \* local prev: the frame read last
    \* main
    csv_rows,      \* the rows handed to write_csv
    \* _mad
    mad_arr,       \* argument arr
    mad_ret,       \* returned value, in units of 1/U
    \* render_flashes
    flash_events,  \* argument events: (ts, event, detail) rows
    flash_ms,      \* argument
    render_fps,    \* local fps of the capture
    n_frames,      \* number of frames the capture delivers
    windows,       \* local windows, in half milliseconds
    w_idx,         \* local w_idx
    frame_idx,     \* local frame_idx
    flashed,       \* per frame written to out: whether it got the border
    \* RembgSessionManager (src/backend/app.py)
    has_rembg,     \* HAS_REMBG
    session,       \* self._session
    last_accessed, \* self._last_accessed
    lock,          \* the request thread that holds self._lock, 0 when free
    cleanup_timer, \* self._cleanup_timer: 0 for None, else index in timers
    timers,        \* every threading.Timer created: deadline and state
    now,           \* time.time(), in units of timeout / Timeout
    callers,       \* per request thread: its position in get_session
    entered_at,    \* history: the time of every get_session call, taken
                   \* when the call gets the lock
    \* the logs table and one /api/android-log/stream generator
    logs,          \* ids of the rows of table logs
    sqlite_seq,    \* sqlite_sequence of logs: the largest id ever given
    deletes,       \* number of DELETE requests served
    last_id,       \* local last_id of generate()
    fetched,       \* rows of logs_db not yet yielded
    stream_pc,     \* position of generate(): "query", "yield", "sleep", "closed"
    delivered      \* history: ids of the rows yielded, in order

mergeVars == <<audio_ms, visuals, tolerance_ms, output>>

detectVars == <<args, fps, green_sig, tile_diffs, diffs,
                green_events, clusters_found, clusters, events>>

gridVars == <<width, height, cols, rows, pad, boxes>>

locateVars == <<video, grid_hint, rects>>

extractVars == <<source, cap_pos, prev_frame>>

mainVars == <<csv_rows>>

madVars == <<mad_arr, mad_ret>>

renderVars == <<flash_events, flash_ms, render_fps, n_frames,
                windows, w_idx, frame_idx, flashed>>

rembgVars == <<has_rembg, session, last_accessed, lock, cleanup_timer,
               timers, now, callers, entered_at>>

streamVars == <<logs, sqlite_seq, deletes, last_id, fetched, stream_pc,
                delivered>>

vars == <<pc, mergeVars, detectVars, gridVars, locateVars, extractVars,
          mainVars, madVars, renderVars, rembgVars, streamVars>>

----------------------------------------------------------------------------
(* Generic helpers *)

Abs(x) == IF x < 0 THEN -x ELSE x

\* builtin max(a, b) / min(a, b)
Max2(a, b) == IF b > a THEN b ELSE a
Min2(a, b) == IF b < a THEN b ELSE a

\* all sequences over S of length 0..n
SeqsUpTo(S, n) == UNION {[1..k -> S] : k \in 0..n}

\* concatenation of a sequence of sequences
RECURSIVE Concat(_)
Concat(ss) == IF ss = <<>> THEN <<>> ELSE ss[1] \o Concat(Tail(ss))

\* number of elements of sequence s equal to x
Count(s, x) == Cardinality({i \in DOMAIN s : s[i] = x})

----------------------------------------------------------------------------
(* merge_events *)

\* dataclass VisualEvent
VisualEvent(ts, label, detail) == [ts_ms |-> ts, label |-> label, detail |-> detail]

\* vis_ts = np.array([v.ts_ms for v in visuals])
VisTs(vs) == [i \in DOMAIN vs |-> vs[i].ts_ms]

\* np.abs(arr - x)
AbsDiff(arr, x) == [i \in DOMAIN arr |-> Abs(arr[i] - x)]

\* np.argmin: index of the minimum, the lowest one on ties (1-based here)
RECURSIVE ArgMinFrom(_, _, _)
ArgMinFrom(d, i, best) ==
    IF i > Len(d) THEN best
    ELSE ArgMinFrom(d, i + 1, IF d[i] < d[best] THEN i ELSE best)

\* variant of ArgMin that takes the highest index on ties
ArgMin_last(d) ==
    CHOOSE i \in DOMAIN d :
        /\ \A j \in DOMAIN d : d[i] <= d[j]
        /\ \A j \in DOMAIN d : d[j] = d[i] => j <= i

ArgMin(d) == ArgMinFrom(d, 2, 1)

\* np.min
RECURSIVE MinFrom(_, _, _)
MinFrom(d, i, best) ==
    IF i > Len(d) THEN best
    ELSE MinFrom(d, i + 1, IF d[i] < best THEN d[i] ELSE best)

\* variant of NpMin that looks at the first element only
NpMin_first(d) == d[1]

NpMin(d) == MinFrom(d, 2, d[1])

\* f"{v.label}:{v.detail}"
MergedDetail(v) == v.label \o ":" \o v.detail

\* variant of AudioRow whose tolerance test excludes the boundary (delta < tol)
AudioRow_strict(a_ms, vs, tol) ==
    LET vis_ts == VisTs(vs)
    IN  IF Len(vis_ts) > 0
        THEN LET idx   == ArgMin(AbsDiff(vis_ts, a_ms))
                 delta == Abs(vis_ts[idx] - a_ms)
             IN  IF delta < tol
                 THEN <<a_ms, "audio+visual", MergedDetail(vs[idx])>>
                 ELSE <<a_ms, "audio_only", "onset">>
        ELSE <<a_ms, "audio_only", "onset">>

\* one iteration of the first loop: the row appended for onset a_ms
AudioRow(a_ms, vs, tol) ==
    LET vis_ts == VisTs(vs)
    IN  IF Len(vis_ts) > 0
        THEN LET idx   == ArgMin(AbsDiff(vis_ts, a_ms))
                 delta == Abs(vis_ts[idx] - a_ms)
             IN  IF delta <= tol
                 THEN <<a_ms, "audio+visual", MergedDetail(vs[idx])>>
                 ELSE <<a_ms, "audio_only", "onset">>
        ELSE <<a_ms, "audio_only", "onset">>

\* the first loop: for a_ms in audio_ms
AudioRows(audio, vs, tol) == [i \in DOMAIN audio |-> AudioRow(audio[i], vs, tol)]

\* variant of VisualRow that suppresses only strictly inside the tolerance
VisualRow_loose(v, audio, vs, tol) ==
    IF audio = <<>>
    THEN <<(<<v.ts_ms, v.label, v.detail>>)>>
    ELSE IF NpMin(AbsDiff(audio, v.ts_ms)) >= tol
         THEN <<(<<v.ts_ms, v.label, v.detail>>)>>
         ELSE <<>>

\* one iteration of the second loop: the rows (none or one) appended for v
VisualRow(v, audio, vs, tol) ==
    IF Len(VisTs(vs)) = 0
    THEN <<(<<v.ts_ms, v.label, v.detail>>)>>
    ELSE IF audio = <<>>
         THEN <<(<<v.ts_ms, v.label, v.detail>>)>>       \* nearest = inf
         ELSE LET nearest == NpMin(AbsDiff(audio, v.ts_ms))
              IN  IF nearest > tol
                  THEN <<(<<v.ts_ms, v.label, v.detail>>)>>
                  ELSE <<>>

\* the second loop: for v in visuals
RECURSIVE VisualRowsFrom(_, _, _, _)
VisualRowsFrom(i, audio, vs, tol) ==
    IF i > Len(vs) THEN <<>>
    ELSE VisualRow(vs[i], audio, vs, tol) \o VisualRowsFrom(i + 1, audio, vs, tol)

VisualRows(audio, vs, tol) == VisualRowsFrom(1, audio, vs, tol)

\* list.sort(key=lambda x: x[0]): stable, ascending by the first field
RECURSIVE InsertByTs(_, _)
InsertByTs(row, sorted) ==
    IF sorted = <<>> THEN <<row>>
    ELSE IF sorted[1][1] < row[1]
         THEN <<sorted[1]>> \o InsertByTs(row, Tail(sorted))
         ELSE <<row>> \o sorted

\* variant of SortByTs that leaves the rows in append order
SortByTs_none(rs) == rs

RECURSIVE SortByTs(_)
SortByTs(rs) ==
    IF rs = <<>> THEN <<>>
    ELSE InsertByTs(rs[1], SortByTs(Tail(rs)))

merge_events(audio, vs, tol) ==
    SortByTs(AudioRows(audio, vs, tol) \o VisualRows(audio, vs, tol))

----------------------------------------------------------------------------
(* detect_round_events: numeric primitives *)

\* Thresholds are compared in units of 1/U: halves and quarters come from
\* medians of medians, eighths from k = 3.5, 1/25 from the percentile
\* interpolation.
U == 8 * 25

\* arr * U
Scaled(arr) == [i \in DOMAIN arr |-> arr[i] * U]

\* np.sort: the array in ascending order
NpSort(arr) == SortSeq(arr, LAMBDA a, b : a < b)

\* np.median of a non-empty array (values in units of 1/U, so the mean of
\* the two middle values is exact)
NpMedian(arr) ==
    LET srt == NpSort(arr)
        n   == Len(arr)
    IN  (srt[(n + 1) \div 2] + srt[n \div 2 + 1]) \div 2

\* np.percentile(arr, q), linear interpolation between the order statistics
\* around the virtual index q/100 * (n - 1)
NpPercentile(arr, q) ==
    LET srt   == NpSort(arr)
        n     == Len(arr)
        pos   == q * (n - 1)
        lo    == pos \div 100
        gamma == pos % 100
        a     == srt[lo + 1]
        b     == srt[Min2(lo + 2, n)]
    IN  a + (gamma * (b - a)) \div 100

\* variant of Mad without the replacement of 0
Mad_nozero(arr) ==
    LET med == NpMedian(arr)
    IN  NpMedian([i \in DOMAIN arr |-> Abs(arr[i] - med)])

\* _mad: float(np.median(np.abs(arr - med))) or 1.0
Mad(arr) ==
    LET med == NpMedian(arr)
        m   == NpMedian([i \in DOMAIN arr |-> Abs(arr[i] - med)])
    IN  IF m = 0 THEN U ELSE m

\* k * x for a multiplier k given as <<numerator, denominator>>
Times(k, x) == (k[1] * x) \div k[2]

\* frames * 1000.0 / fps (the frame rates drawn divide 1000, so it is exact)
FramesToMs(frames, rate) == (frames * 1000) \div rate

\* f"cell_{i}"
CellLabel(i) == "cell_" \o ToString(i)

----------------------------------------------------------------------------
(* detect_round_events: green rising edges per tile (lines 208-221) *)

\* variant of GreenThreshold that uses the baseline (median) alone
GreenThreshold_base(series, green_k) == NpMedian(Scaled(series))

\* thr = max(base + green_k * _mad(arr), np.percentile(arr, 92)), in 1/U
GreenThreshold(series, green_k) ==
    LET arr == Scaled(series)
    IN  Max2(NpMedian(arr) + Times(green_k, Mad(arr)), NpPercentile(arr, 92))

\* variant of GreenStep that also fires on a sample equal to thr
GreenStep_atleast(series, thr, f, last_fire, min_gap_frames, i) ==
    IF /\ series[f + 1] * U >= thr
       /\ series[f] * U <= thr
       /\ (f - last_fire) >= min_gap_frames
    THEN [ev |-> <<(<<f, i>>)>>, last |-> f]
    ELSE [ev |-> <<>>, last |-> last_fire]

\* body of the loop "for f in range(1, len(arr))" for one frame f: the
\* events appended and the value of last_fire afterwards
GreenStep(series, thr, f, last_fire, min_gap_frames, i) ==
    IF /\ series[f + 1] * U > thr
       /\ series[f] * U <= thr
       /\ (f - last_fire) >= min_gap_frames
    THEN [ev |-> <<(<<f, i>>)>>, last |-> f]
    ELSE [ev |-> <<>>, last |-> last_fire]

\* the loop over the frames lo..hi in ascending order, last_fire threaded
\* through (evaluated by halves to keep the evaluation shallow)
RECURSIVE GreenScan(_, _, _, _, _, _, _)
GreenScan(series, thr, lo, hi, last_fire, min_gap_frames, i) ==
    IF lo > hi THEN [ev |-> <<>>, last |-> last_fire]
    ELSE IF lo = hi THEN GreenStep(series, thr, lo, last_fire, min_gap_frames, i)
    ELSE LET mid   == (lo + hi) \div 2
             left  == GreenScan(series, thr, lo, mid, last_fire, min_gap_frames, i)
             right == GreenScan(series, thr, mid + 1, hi, left.last, min_gap_frames, i)
         IN  [ev |-> left.ev \o right.ev, last |-> right.last]

\* int(fps * 0.4)
MinGapFrames(rate) == (rate * 4) \div 10

\* one iteration of "for i, series in enumerate(green_sig)"
GreenOfTile(series, i, rate, green_k) ==
    IF Len(series) = 0 THEN <<>>
    ELSE GreenScan(series, GreenThreshold(series, green_k), 1, Len(series) - 1,
                   -10000, MinGapFrames(rate), i).ev

\* green_events after the loop over the tiles (tile i is green_sig[i + 1])
RECURSIVE GreenFrom(_, _, _, _)
GreenFrom(i, sig, rate, green_k) ==
    IF i >= Len(sig) THEN <<>>
    ELSE GreenOfTile(sig[i + 1], i, rate, green_k) \o GreenFrom(i + 1, sig, rate, green_k)

GreenEvents(sig, rate, green_k) == GreenFrom(0, sig, rate, green_k)

----------------------------------------------------------------------------
(* detect_round_events: appear events (lines 223-241) *)

\* first_green_frame = green_events[0][0] if green_events
\*                     else len(tile_diffs[0]) if tile_diffs and tile_diffs[0] else 0
FirstGreenFrame(ge, td) ==
    IF ge # <<>> THEN ge[1][1]
    ELSE IF td # <<>> /\ td[1] # <<>> THEN Len(td[1])
    ELSE 0

\* variant of AppearThreshold without the MAD term
AppearThreshold_nomad(window, appear_diff_k) ==
    LET arr == Scaled(window)
    IN  Max2(NpPercentile(arr, 97), NpMedian(arr))

\* thr = max(np.percentile(window, 97), np.median(window) + appear_diff_k * _mad(window))
AppearThreshold(window, appear_diff_k) ==
    LET arr == Scaled(window)
    IN  Max2(NpPercentile(arr, 97), NpMedian(arr) + Times(appear_diff_k, Mad(arr)))

\* idxs = np.where(window >= thr)[0], as 0-based indices
WhereAtLeast(window, thr) == {idx \in 0..(Len(window) - 1) : window[idx + 1] * U >= thr}

\* variant of AppearScan without the break: one event per index of idxs
\* whose timestamp is >= appear_min_ms
AppearScan_all(window, thr, i, rate, appear_min_ms) ==
    LET late == {idx \in WhereAtLeast(window, thr) :
                     FramesToMs(idx + 1, rate) >= appear_min_ms}
    IN  [n \in 1..Cardinality(late) |->
            LET idx == CHOOSE x \in late : Cardinality({y \in late : y < x}) = n - 1
            IN  VisualEvent(FramesToMs(idx + 1, rate), CellLabel(i), "appear")]

\* "for idx in idxs": the first index of idxs whose timestamp is >=
\* appear_min_ms gives the event, then break
AppearScan(window, thr, i, rate, appear_min_ms) ==
    LET late == {idx \in WhereAtLeast(window, thr) :
                     FramesToMs(idx + 1, rate) >= appear_min_ms}
    IN  IF late = {} THEN <<>>
        ELSE LET idx == CHOOSE x \in late : \A y \in late : x <= y
             IN  <<VisualEvent(FramesToMs(idx + 1, rate), CellLabel(i), "appear")>>

\* one iteration of "for i, series in enumerate(tile_diffs)"
AppearOfTile(series, i, first_green_frame, rate, appear_diff_k, appear_min_ms) ==
    IF Len(series) = 0 THEN <<>>
    ELSE LET search_upto == IF first_green_frame > 0
                            THEN Min2(Len(series), first_green_frame)
                            ELSE Len(series)
         IN  IF search_upto < 5 THEN <<>>
             ELSE LET window == SubSeq(series, 1, search_upto)
                  IN  AppearScan(window, AppearThreshold(window, appear_diff_k),
                                 i, rate, appear_min_ms)

RECURSIVE AppearFrom(_, _, _, _, _, _)
AppearFrom(i, td, first_green_frame, rate, appear_diff_k, appear_min_ms) ==
    IF i >= Len(td) THEN <<>>
    ELSE AppearOfTile(td[i + 1], i, first_green_frame, rate, appear_diff_k, appear_min_ms)
         \o AppearFrom(i + 1, td, first_green_frame, rate, appear_diff_k, appear_min_ms)

AppearEvents(td, ge, rate, appear_diff_k, appear_min_ms) ==
    AppearFrom(0, td, FirstGreenFrame(ge, td), rate, appear_diff_k, appear_min_ms)

----------------------------------------------------------------------------
(* detect_round_events: clustering into rounds (lines 243-255) *)

\* green_events.sort(key=lambda x: x[0]): stable, ascending by frame
RECURSIVE InsertByFrame(_, _)
InsertByFrame(e, sorted) ==
    IF sorted = <<>> THEN <<e>>
    ELSE IF sorted[1][1] < e[1]
         THEN <<sorted[1]>> \o InsertByFrame(e, Tail(sorted))
         ELSE <<e>> \o sorted

RECURSIVE SortByFrame(_)
SortByFrame(ge) ==
    IF ge = <<>> THEN <<>>
    ELSE InsertByFrame(ge[1], SortByFrame(Tail(ge)))

\* variant of SameRound with a strict comparison (gap < cluster_gap_ms)
SameRound_strict(f, last_f, rate, cluster_gap_ms) ==
    FramesToMs(f - last_f, rate) < cluster_gap_ms

\* (f - last_f) * 1000.0 / fps <= cluster_gap_ms
SameRound(f, last_f, rate, cluster_gap_ms) ==
    FramesToMs(f - last_f, rate) <= cluster_gap_ms

\* "for f, tile in green_events" from element n on, cl the clusters so far
RECURSIVE ClusterFrom(_, _, _, _, _)
ClusterFrom(ge, n, cl, rate, cluster_gap_ms) ==
    IF n > Len(ge) THEN cl
    ELSE IF cl = <<>>
         THEN ClusterFrom(ge, n + 1, <<(<<ge[n]>>)>>, rate, cluster_gap_ms)
         ELSE LET last   == cl[Len(cl)]
                  last_f == last[Len(last)][1]
              IN  IF SameRound(ge[n][1], last_f, rate, cluster_gap_ms)
                  THEN ClusterFrom(ge, n + 1,
                                   [cl EXCEPT ![Len(cl)] = Append(last, ge[n])],
                                   rate, cluster_gap_ms)
                  ELSE ClusterFrom(ge, n + 1, Append(cl, <<ge[n]>>),
                                   rate, cluster_gap_ms)

ClusterRounds(ge, rate, cluster_gap_ms) ==
    ClusterFrom(SortByFrame(ge), 1, <<>>, rate, cluster_gap_ms)

\* variant of TakeFirst that keeps one cluster more
TakeFirst_plus(s, k) == SubSeq(s, 1, Min2(k + 1, Len(s)))

\* variant of TakeFirst that keeps every cluster
TakeFirst_all(s, k) == s

\* s[:k]
TakeFirst(s, k) ==
    IF k >= 0 THEN SubSeq(s, 1, Min2(k, Len(s)))
    ELSE SubSeq(s, 1, Max2(Len(s) + k, 0))

----------------------------------------------------------------------------
(* detect_round_events: green events of the kept rounds (lines 257-264) *)

\* f"green_round{round_idx+1}"
GreenDetail(round_idx) == "green_round" \o ToString(round_idx + 1)

\* variant of GreenOfCluster without the seen set: one event per flash
RECURSIVE GreenOfCluster_all(_, _, _, _, _)
GreenOfCluster_all(cluster, n, seen, round_idx, rate) ==
    IF n > Len(cluster) THEN <<>>
    ELSE <<VisualEvent(FramesToMs(cluster[n][1], rate), CellLabel(cluster[n][2]),
                       GreenDetail(round_idx))>>
         \o GreenOfCluster_all(cluster, n + 1, seen, round_idx, rate)

\* "for f, tile in cluster" from element n on, seen the tiles met so far
RECURSIVE GreenOfCluster(_, _, _, _, _)
GreenOfCluster(cluster, n, seen, round_idx, rate) ==
    IF n > Len(cluster) THEN <<>>
    ELSE LET f    == cluster[n][1]
             tile == cluster[n][2]
         IN  IF tile \in seen
             THEN GreenOfCluster(cluster, n + 1, seen, round_idx, rate)
             ELSE <<VisualEvent(FramesToMs(f, rate), CellLabel(tile), GreenDetail(round_idx))>>
                  \o GreenOfCluster(cluster, n + 1, seen \cup {tile}, round_idx, rate)

\* "for round_idx, cluster in enumerate(clusters)"
RECURSIVE GreenRoundsFrom(_, _, _)
GreenRoundsFrom(round_idx, cl, rate) ==
    IF round_idx >= Len(cl) THEN <<>>
    ELSE GreenOfCluster(cl[round_idx + 1], 1, {}, round_idx, rate)
         \o GreenRoundsFrom(round_idx + 1, cl, rate)

GreenRoundEvents(cl, rate) == GreenRoundsFrom(0, cl, rate)

----------------------------------------------------------------------------
(* detect_round_events: shuffle events (lines 266-287) *)

\* arr[a:b] for 0 <= a
PySlice(arr, a, b) == SubSeq(arr, a + 1, Min2(b, Len(arr)))

\* np.argmax: index of the maximum, the lowest one on ties (0-based)
ArgMax(w) ==
    (CHOOSE i \in DOMAIN w :
        /\ \A j \in DOMAIN w : w[j] <= w[i]
        /\ \A j \in DOMAIN w : w[j] = w[i] => i <= j) - 1

\* thr = base + shuffle_k * _mad(diff_arr), in 1/U
ShuffleThreshold(d, shuffle_k) ==
    LET arr == Scaled(d)
    IN  NpMedian(arr) + Times(shuffle_k, Mad(arr))

\* variant of ShuffleDetail that marks a peak above thr as low confidence
ShuffleDetail_swapped(idx, peak_val, thr) ==
    "shuffle_round" \o ToString(idx + 2)
        \o (IF peak_val * U > thr THEN "_lowconf" ELSE "")

\* f"shuffle_round{idx+2}", with "_lowconf" when the peak is not above thr
ShuffleDetail(idx, peak_val, thr) ==
    "shuffle_round" \o ToString(idx + 2)
        \o (IF peak_val * U <= thr THEN "_lowconf" ELSE "")

\* variant of ShuffleOfGap that stamps the event one frame later
ShuffleOfGap_late(idx, d, cl, thr, rate, force_shuffle) ==
    LET prev    == cl[idx + 1]
        start_f == prev[Len(prev)][1] + 1
        end_f   == cl[idx + 2][1][1] - 1
    IN  IF end_f <= start_f THEN <<>>
        ELSE LET window == PySlice(d, start_f, end_f)
             IN  IF Len(window) = 0 THEN <<>>
                 ELSE LET peak_rel == ArgMax(window)
                          peak_val == window[peak_rel + 1]
                          peak_f   == start_f + peak_rel
                      IN  IF peak_val * U > thr \/ force_shuffle
                          THEN <<VisualEvent(FramesToMs(peak_f + 2, rate), "layout",
                                             ShuffleDetail(idx, peak_val, thr))>>
                          ELSE <<>>

\* one iteration of "for idx in range(len(clusters) - 1)"
ShuffleOfGap(idx, d, cl, thr, rate, force_shuffle) ==
    LET prev    == cl[idx + 1]
        start_f == prev[Len(prev)][1] + 1
        end_f   == cl[idx + 2][1][1] - 1
    IN  IF end_f <= start_f THEN <<>>
        ELSE LET window == PySlice(d, start_f, end_f)
             IN  IF Len(window) = 0 THEN <<>>
                 ELSE LET peak_rel == ArgMax(window)
                          peak_val == window[peak_rel + 1]
                          peak_f   == start_f + peak_rel
                      IN  IF peak_val * U > thr \/ force_shuffle
                          THEN <<VisualEvent(FramesToMs(peak_f + 1, rate), "layout",
                                             ShuffleDetail(idx, peak_val, thr))>>
                          ELSE <<>>

RECURSIVE ShuffleFrom(_, _, _, _, _, _)
ShuffleFrom(idx, d, cl, thr, rate, force_shuffle) ==
    IF idx >= Len(cl) - 1 THEN <<>>
    ELSE ShuffleOfGap(idx, d, cl, thr, rate, force_shuffle)
         \o ShuffleFrom(idx + 1, d, cl, thr, rate, force_shuffle)

\* "if diffs and clusters: ..."
ShuffleEvents(d, cl, rate, shuffle_k, force_shuffle) ==
    IF d = <<>> \/ cl = <<>> THEN <<>>
    ELSE ShuffleFrom(0, d, cl, ShuffleThreshold(d, shuffle_k), rate, force_shuffle)

----------------------------------------------------------------------------
(* detect_round_events: the returned list (lines 289-290) *)

\* events.sort(key=lambda e: e.ts_ms): stable, ascending by timestamp
RECURSIVE InsertEvent(_, _)
InsertEvent(e, sorted) ==
    IF sorted = <<>> THEN <<e>>
    ELSE IF sorted[1].ts_ms < e.ts_ms
         THEN <<sorted[1]>> \o InsertEvent(e, Tail(sorted))
         ELSE <<e>> \o sorted

\* variant of SortEvents that leaves the list in the order of creation
SortEvents_none(es) == es

RECURSIVE SortEvents(_)
SortEvents(es) ==
    IF es = <<>> THEN <<>>
    ELSE InsertEvent(es[1], SortEvents(Tail(es)))

----------------------------------------------------------------------------
(* _build_grid (lines 62-74) *)

\* int(num / den) for den > 0: truncation towards zero
PyInt(num, den) == IF num >= 0 THEN num \div den ELSE -((-num) \div den)

\* variant of GridBox that adds the padding on the far side too
GridBox_padout(w, h, nc, nr, p, r, c) ==
    LET x1 == PyInt((c * p[2] + p[1]) * w, nc * p[2])
        y1 == PyInt((r * p[2] + p[1]) * h, nr * p[2])
        x2 == PyInt(((c + 1) * p[2] + p[1]) * w, nc * p[2])
        y2 == PyInt(((r + 1) * p[2] + p[1]) * h, nr * p[2])
    IN  <<x1, y1, x2 - x1, y2 - y1>>

\* body of the inner loop: the box of row r, column c, with
\* cell_w = width / cols, cell_h = height / rows and p = pad, so that
\* c * cell_w + pad * cell_w = (c * p[2] + p[1]) * width / (cols * p[2])
GridBox(w, h, nc, nr, p, r, c) ==
    LET x1 == PyInt((c * p[2] + p[1]) * w, nc * p[2])
        y1 == PyInt((r * p[2] + p[1]) * h, nr * p[2])
        x2 == PyInt(((c + 1) * p[2] - p[1]) * w, nc * p[2])
        y2 == PyInt(((r + 1) * p[2] - p[1]) * h, nr * p[2])
    IN  <<x1, y1, x2 - x1, y2 - y1>>

\* "for r in range(rows): for c in range(cols): boxes.append(...)"
BuildGrid(w, h, nc, nr, p) ==
    Concat([r1 \in 1..nr |-> [c1 \in 1..nc |-> GridBox(w, h, nc, nr, p, r1 - 1, c1 - 1)]])

----------------------------------------------------------------------------
(* _find_tiles (lines 77-109) and its use (lines 155-164) *)

max_probe == 220

\* the number of tiles the locator looks for (the literal 8 of lines 103-104)
TileCount == 8

\* candidates of one frame: bounding boxes with area >= 4000, moved back to
\* frame coordinates
Candidates(frame, x0, y0) ==
    LET big == SelectSeq(frame, LAMBDA b : ~(b[3] * b[4] < 4000))
    IN  [n \in DOMAIN big |-> <<big[n][1] + x0, big[n][2] + y0, big[n][3], big[n][4]>>]

\* key=lambda r: (r[1], r[0]) compared as tuples
KeyLess(a, b) == a[2] < b[2] \/ (a[2] = b[2] /\ a[1] < b[1])

\* sorted(cand, key=...): stable, ascending by (y, x)
RECURSIVE InsertByYX(_, _)
InsertByYX(b, sorted) ==
    IF sorted = <<>> THEN <<b>>
    ELSE IF KeyLess(sorted[1], b)
         THEN <<sorted[1]>> \o InsertByYX(b, Tail(sorted))
         ELSE <<b>> \o sorted

RECURSIVE SortByYX(_)
SortByYX(cand) ==
    IF cand = <<>> THEN <<>>
    ELSE InsertByYX(cand[1], SortByYX(Tail(cand)))

None == "None"

\* variant of FindTiles that probes every frame of the video
FindTiles_unbounded(v) ==
    IF ~v.probe_opened THEN None
    ELSE LET x0     == PyInt(8 * v.width, 100)
             y0     == PyInt(18 * v.height, 100)
             good   == {n \in DOMAIN v.frames :
                            Len(Candidates(v.frames[n], x0, y0)) >= TileCount}
         IN  IF good = {} THEN None
             ELSE LET n == CHOOSE g \in good : \A g2 \in good : g <= g2
                  IN  SubSeq(SortByYX(Candidates(v.frames[n], x0, y0)), 1, TileCount)

\* _find_tiles: None, or the first TileCount candidates of the first frame,
\* among the first max_probe ones, that has at least TileCount candidates
FindTiles(v) ==
    IF ~v.probe_opened THEN None
    ELSE LET x0     == PyInt(8 * v.width, 100)
             y0     == PyInt(18 * v.height, 100)
             probed == 1..Min2(max_probe, Len(v.frames))
             good   == {n \in probed : Len(Candidates(v.frames[n], x0, y0)) >= TileCount}
         IN  IF good = {} THEN None
             ELSE LET n == CHOOSE g \in good : \A g2 \in good : g <= g2
                  IN  SubSeq(SortByYX(Candidates(v.frames[n], x0, y0)), 1, TileCount)

\* rects = _find_tiles(video_path); if rects is None: rects = _build_grid(...)
LocateRegions(v) ==
    LET found == FindTiles(v)
    IN  IF found = None THEN BuildGrid(v.width, v.height, 4, 2, <<1, 10>>)
        ELSE found

----------------------------------------------------------------------------
(* Specification of merge_events: any audio list, any visual list *)

MaxAudio  == 2      \* longest audio onset list
MaxVisual == 2      \* longest visual event list
MaxTs     == 2      \* timestamps range over 0..MaxTs
MaxTol    == 1      \* tolerance_ms ranges over 0..MaxTol

VisualKinds == {<<"cell_0", "appear">>, <<"layout", "shuffle_round2">>}

VisualEvents == {VisualEvent(t, k[1], k[2]) : t \in 0..MaxTs, k \in VisualKinds}

\* the variables of detect_round_events while another function is studied
DetectIdle ==
    /\ args = [expect_rounds |-> 0]
    /\ fps = 0
    /\ green_sig = <<>> /\ tile_diffs = <<>> /\ diffs = <<>>
    /\ green_events = <<>> /\ clusters_found = <<>> /\ clusters = <<>>
    /\ events = <<>>

\* the variables of _build_grid and of the region location while another
\* function is studied
GridIdle ==
    /\ width = 0 /\ height = 0 /\ cols = 0 /\ rows = 0 /\ pad = <<0, 1>>
    /\ boxes = <<>>

LocateIdle ==
    /\ video = [opened |-> FALSE] /\ grid_hint = <<4, 2>> /\ rects = <<>>

\* the variables of the extraction loop, of main and of _mad while another
\* function is studied
ExtractIdle ==
    /\ source = <<>> /\ cap_pos = 0 /\ prev_frame = "None"

MainIdle == csv_rows = <<>>

MadIdle == mad_arr = <<>> /\ mad_ret = 0

\* the variables of render_flashes, of the session manager and of the log
\* stream while another function is studied
RenderIdle ==
    /\ flash_events = <<>> /\ flash_ms = 0 /\ render_fps = 0 /\ n_frames = 0
    /\ windows = <<>> /\ w_idx = 0 /\ frame_idx = 0 /\ flashed = <<>>

RembgIdle ==
    /\ has_rembg = FALSE /\ session = "None" /\ last_accessed = 0
    /\ lock = 0 /\ cleanup_timer = 0 /\ timers = <<>> /\ now = 0
    /\ callers = <<>> /\ entered_at = <<>>

StreamIdle ==
    /\ logs = {} /\ sqlite_seq = 0 /\ deletes = 0 /\ last_id = 0
    /\ fetched = <<>> /\ stream_pc = "closed" /\ delivered = <<>>

ServiceIdle == RenderIdle /\ RembgIdle /\ StreamIdle

\* the variables of merge_events while another function is studied
MergeIdle ==
    /\ audio_ms = <<>> /\ visuals = <<>> /\ tolerance_ms = 0 /\ output = <<>>

InitMerge ==
    /\ pc = "start"
    /\ DetectIdle /\ GridIdle /\ LocateIdle
    /\ ExtractIdle /\ MainIdle /\ MadIdle /\ ServiceIdle
    /\ audio_ms \in SeqsUpTo(0..MaxTs, MaxAudio)
    /\ visuals \in SeqsUpTo(VisualEvents, MaxVisual)
    /\ tolerance_ms \in 0..MaxTol
    /\ output = <<>>

MergeEvents ==
    /\ pc = "start"
    /\ output' = merge_events(audio_ms, visuals, tolerance_ms)
    /\ pc' = "done"
    /\ UNCHANGED <<audio_ms, visuals, tolerance_ms>>
    /\ UNCHANGED <<detectVars, gridVars, locateVars>>
    /\ UNCHANGED <<extractVars, mainVars, madVars, renderVars, rembgVars, streamVars>>

NextMerge == MergeEvents

SpecMerge == InitMerge /\ [][NextMerge]_vars

----------------------------------------------------------------------------
(* Properties of merge_events *)

AudioTags == {"audio+visual", "audio_only"}

\* the rows of out that carry an audio tag / that do not
AudioTagged(out) == SelectSeq(out, LAMBDA r : r[2] \in AudioTags)
Standalone(out)  == SelectSeq(out, LAMBDA r : r[2] \notin AudioTags)

\* distance between visual event i and a timestamp
Dist(i, t) == Abs(visuals[i].ts_ms - t)

\* the nearest visual event of timestamp a: the lowest index among the
\* visual events at minimal distance (visuals must be non-empty)
NearestVisual(a) ==
    LET closest == {i \in DOMAIN visuals :
                        \A j \in DOMAIN visuals : Dist(i, a) <= Dist(j, a)}
    IN  CHOOSE i \in closest : \A j \in closest : i <= j

\* the row the contract prescribes for audio onset a
ExpectedAudioRow(a) ==
    IF visuals # <<>> /\ Dist(NearestVisual(a), a) <= tolerance_ms
    THEN LET v == visuals[NearestVisual(a)]
         IN  <<a, "audio+visual", v.label \o ":" \o v.detail>>
    ELSE <<a, "audio_only", "onset">>

\* the standalone row of a visual event
StandaloneRow(v) == <<v.ts_ms, v.label, v.detail>>

\* visual event i is claimed: it is the nearest visual event of some onset
\* and within tolerance of that onset
Claimed(i) ==
    \E k \in DOMAIN audio_ms :
        /\ NearestVisual(audio_ms[k]) = i
        /\ Dist(i, audio_ms[k]) <= tolerance_ms

\* some audio onset lies within tolerance of visual event i
NearAudio(i) ==
    \E k \in DOMAIN audio_ms : Dist(i, audio_ms[k]) <= tolerance_ms

\* C1: merge_events emits exactly one row per audio onset, at the onset's
\* timestamp: "audio+visual" with detail "{label}:{detail}" of the nearest
\* visual event (lowest index on ties) exactly when that event is at distance
\* <= tolerance_ms, "audio_only" otherwise (also when there are no visuals).
C1_OneRowPerOnset ==
    pc = "done" =>
        /\ Len(AudioTagged(output)) = Len(audio_ms)
        /\ \A k \in DOMAIN audio_ms :
              Count(output, ExpectedAudioRow(audio_ms[k])) =
                  Cardinality({j \in DOMAIN audio_ms :
                      ExpectedAudioRow(audio_ms[j]) = ExpectedAudioRow(audio_ms[k])})

\* an onset tied between two different visual events, both exactly at the
\* tolerance, merged with the one of lowest index; another onset is audio_only
C1_Witness ==
    /\ pc = "done"
    /\ Len(visuals) = 2
    /\ visuals[1].label # visuals[2].label
    /\ tolerance_ms > 0
    /\ \E k \in DOMAIN audio_ms :
          /\ Dist(1, audio_ms[k]) = tolerance_ms
          /\ Dist(2, audio_ms[k]) = tolerance_ms
          /\ Count(output, <<audio_ms[k], "audio+visual",
                             visuals[1].label \o ":" \o visuals[1].detail>>) = 1
    /\ \E k \in DOMAIN audio_ms :
          Count(output, <<audio_ms[k], "audio_only", "onset">>) = 1

\* C2: a visual event claimed by some audio onset is never also emitted as a
\* standalone row.
C2_ClaimedNotStandalone ==
    pc = "done" =>
        \A i \in DOMAIN visuals :
            Claimed(i) => Count(output, StandaloneRow(visuals[i])) = 0

\* one visual event is claimed at exactly the tolerance while another one is
\* emitted standalone
C2_Witness ==
    /\ pc = "done"
    /\ \E i \in DOMAIN visuals :
          /\ Claimed(i)
          /\ \E k \in DOMAIN audio_ms :
                /\ NearestVisual(audio_ms[k]) = i
                /\ Dist(i, audio_ms[k]) = tolerance_ms
          /\ Count(output, StandaloneRow(visuals[i])) = 0
    /\ \E j \in DOMAIN visuals : Count(output, StandaloneRow(visuals[j])) = 1

\* C3: each visual event is emitted as a standalone row (own timestamp, label,
\* detail) exactly when its nearest audio onset is farther than tolerance_ms
\* away or there are no audio onsets; otherwise it is not emitted standalone.
C3_StandaloneIffFar ==
    pc = "done" =>
        /\ \A i \in DOMAIN visuals :
              Count(output, StandaloneRow(visuals[i])) =
                  IF NearAudio(i) THEN 0
                  ELSE Cardinality({j \in DOMAIN visuals : visuals[j] = visuals[i]})
        /\ \A n \in DOMAIN output :
              output[n][2] \notin AudioTags =>
                  \E i \in DOMAIN visuals : output[n] = StandaloneRow(visuals[i])

\* two audio onsets, a visual event suppressed by the second onset at exactly
\* the tolerance, and another visual event emitted standalone
C3_Witness ==
    /\ pc = "done"
    /\ Len(audio_ms) = 2
    /\ \E i \in DOMAIN visuals :
          /\ Dist(i, audio_ms[1]) > tolerance_ms
          /\ Dist(i, audio_ms[2]) = tolerance_ms
          /\ Count(output, StandaloneRow(visuals[i])) = 0
    /\ \E j \in DOMAIN visuals :
          /\ ~NearAudio(j)
          /\ Count(output, StandaloneRow(visuals[j])) = 1

\* C4: the list returned by merge_events is sorted ascending by timestamp,
\* whatever the order of the audio onsets and visual events passed in.
C4_OutputSorted ==
    pc = "done" =>
        \A m, n \in DOMAIN output : m < n => output[m][1] <= output[n][1]

\* onsets and visual events both passed in descending order, and a standalone
\* visual row that precedes every audio row in the output
C4_Witness ==
    /\ pc = "done"
    /\ Len(audio_ms) = 2 /\ audio_ms[1] > audio_ms[2]
    /\ Len(visuals) = 2 /\ visuals[1].ts_ms > visuals[2].ts_ms
    /\ Len(output) >= 3
    /\ output[1][2] \notin AudioTags
    /\ output[1][1] < output[Len(output)][1]

----------------------------------------------------------------------------
(* Specification of detect_round_events from the extracted signals on *)

NumFrames    == 14   \* frames of the capture in the pulse family
NumTiles     == 2    \* tiles (rects) in the pulse family
MaxHighs     == 3    \* most green (frame, tile) samples over all tiles
MaxRounds    == 2    \* expect_rounds ranges over 1..MaxRounds

\* frame rates drawn (both divide 1000): 0.4 * fps is 2 and 3.2
FpsSet == {5, 8}

\* cluster_gap_ms values drawn: 1 and 2 frames at 5 fps, 1.6 and 3.2 at 8 fps
GapSet == {200, 400}

\* frames at which a tile may be green in the pulse family
PulseFrames == {1, 2, 4, 6}

\* a series of n frames that is 10 on the frames of H and 0 elsewhere
Pulses(H, n) == [j \in 1..n |-> IF (j - 1) \in H THEN 10 ELSE 0]

\* sets of at most MaxHighs (frame, tile) samples that are green
HighSets ==
    {P \in SUBSET (PulseFrames \X (1..NumTiles)) : Cardinality(P) <= MaxHighs}

\* a series of n samples, 0 except for the value 9 at index at
Spike(at, n) == [j \in 1..n |-> IF j - 1 = at THEN 9 ELSE 0]

Flat(n) == [j \in 1..n |-> 0]

\* keyword arguments with the defaults of the signature (lines 143-150)
DefaultArgs ==
    [expect_rounds  |-> 5,
     cluster_gap_ms |-> 1200,
     green_k        |-> <<7, 2>>,
     appear_k       |-> <<7, 2>>,
     shuffle_k      |-> <<7, 2>>,
     appear_diff_k  |-> <<4, 1>>,
     appear_min_ms  |-> 0,
     force_shuffle  |-> TRUE]

DetectOutputsEmpty ==
    /\ green_events = <<>> /\ clusters_found = <<>> /\ clusters = <<>>
    /\ events = <<>>

\* family 1: the tiles carry up to MaxHighs green samples among the first
\* frames; the motion signals are either still or carry one spike
InitPulses ==
    /\ fps \in FpsSet
    /\ \E P \in HighSets :
          green_sig = [t \in 1..NumTiles |->
                          Pulses({f \in PulseFrames : <<f, t>> \in P}, NumFrames)]
    /\ \E moving \in BOOLEAN :
          /\ diffs = IF moving THEN Spike(2, NumFrames - 1) ELSE Flat(NumFrames - 1)
          /\ tile_diffs = [t \in 1..NumTiles |->
                              IF moving THEN Spike(t - 1, NumFrames - 1)
                              ELSE Flat(NumFrames - 1)]
    /\ \E er \in 1..MaxRounds, gap \in GapSet, force \in BOOLEAN :
          args = [DefaultArgs EXCEPT !.expect_rounds = er,
                                     !.cluster_gap_ms = gap,
                                     !.force_shuffle = force]

\* family 2: one tile, 100 frames at 10 fps, color_signal 0 before frame
\* jump and 1000 from it on, default arguments
InitStep ==
    /\ fps = 10
    /\ \E jump \in 0..100 :
          green_sig = <<[j \in 1..100 |-> IF j - 1 < jump THEN 0 ELSE 1000]>>
    /\ diffs = Flat(99)
    /\ tile_diffs = <<Flat(99)>>
    /\ args = DefaultArgs

InitDetect ==
    /\ pc = "start"
    /\ MergeIdle /\ GridIdle /\ LocateIdle
    /\ ExtractIdle /\ MainIdle /\ MadIdle /\ ServiceIdle
    /\ DetectOutputsEmpty
    /\ (InitPulses \/ InitStep)

\* detect_round_events from line 206 on
DetectRoundEvents ==
    /\ pc = "start"
    /\ LET ge == GreenEvents(green_sig, fps, args.green_k)
           cf == ClusterRounds(ge, fps, args.cluster_gap_ms)
           cl == TakeFirst(cf, args.expect_rounds)
       IN  /\ green_events' = ge
           /\ clusters_found' = cf
           /\ clusters' = cl
           /\ events' = SortEvents(
                  AppearEvents(tile_diffs, ge, fps, args.appear_diff_k, args.appear_min_ms)
                  \o GreenRoundEvents(cl, fps)
                  \o ShuffleEvents(diffs, cl, fps, args.shuffle_k, args.force_shuffle))
    /\ pc' = "done"
    /\ UNCHANGED <<args, fps, green_sig, tile_diffs, diffs>>
    /\ UNCHANGED <<mergeVars, gridVars, locateVars>>
    /\ UNCHANGED <<extractVars, mainVars, madVars, renderVars, rembgVars, streamVars>>

NextDetect == DetectRoundEvents

SpecDetect == InitDetect /\ [][NextDetect]_vars

----------------------------------------------------------------------------
(* Properties of the round clustering and of the flash detection *)

\* the flash events in the order in which the clustering loop met them
OrderedFlashes == Concat(clusters_found)

\* the cluster (index into clusters_found) that holds position n of
\* OrderedFlashes
ClusterOf(n) ==
    CHOOSE c \in DOMAIN clusters_found :
        LET before == Len(Concat(SubSeq(clusters_found, 1, c - 1)))
        IN  before < n /\ n <= before + Len(clusters_found[c])

\* the gap between two frames is at most cluster_gap_ms:
\* (f2 - f1) * 1000 / fps <= cluster_gap_ms
WithinGap(f1, f2) == (f2 - f1) * 1000 <= args.cluster_gap_ms * fps

\* C5: gap law.  With the flash events sorted by frame, two consecutive flash
\* events are in the same cluster exactly when their gap in milliseconds,
\* (f2 - f1) * 1000 / fps, is <= cluster_gap_ms; a larger gap starts a new
\* cluster.
C5_GapLaw ==
    pc = "done" =>
        /\ Len(OrderedFlashes) = Len(green_events)
        /\ \A e \in {green_events[n] : n \in DOMAIN green_events} :
              Count(OrderedFlashes, e) = Count(green_events, e)
        /\ \A n \in 1..(Len(OrderedFlashes) - 1) :
              LET f1 == OrderedFlashes[n][1]
                  f2 == OrderedFlashes[n + 1][1]
              IN  /\ f1 <= f2
                  /\ WithinGap(f1, f2) => ClusterOf(n + 1) = ClusterOf(n)
                  /\ ~WithinGap(f1, f2) => ClusterOf(n + 1) = ClusterOf(n) + 1

\* two flash events whose gap is exactly cluster_gap_ms share a cluster, and
\* a later flash event with a larger gap sits in the next cluster
C5_Witness ==
    /\ pc = "done"
    /\ Len(clusters_found) = 2
    /\ Len(clusters_found[1]) = 2
    /\ LET f1 == clusters_found[1][1][1]
           f2 == clusters_found[1][2][1]
           f3 == clusters_found[2][1][1]
       IN  /\ (f2 - f1) * 1000 = args.cluster_gap_ms * fps
           /\ (f3 - f2) * 1000 > args.cluster_gap_ms * fps

\* events of the returned list that are flash (green) or shuffle events
IsAppear(e) == e.detail = "appear"
IsShuffle(e) == e.label = "layout"
IsFlash(e) == ~IsAppear(e) /\ ~IsShuffle(e)

\* number of distinct tiles of a cluster
TilesOf(cluster) == {cluster[n][2] : n \in DOMAIN cluster}

RECURSIVE SumTiles(_)
SumTiles(cl) == IF cl = <<>> THEN 0 ELSE Cardinality(TilesOf(cl[1])) + SumTiles(Tail(cl))

\* C6: round cap.  Only the first expect_rounds clusters (in time order) are
\* kept, unchanged; the flash events of any later cluster produce no flash
\* event and no shuffle event in the output.
C6_RoundCap ==
    pc = "done" =>
        LET kept == IF args.expect_rounds < Len(clusters_found)
                    THEN args.expect_rounds ELSE Len(clusters_found)
        IN  /\ Len(clusters) = kept
            /\ \A c \in 1..kept : clusters[c] = clusters_found[c]
            /\ Cardinality({n \in DOMAIN events : IsFlash(events[n])})
                   = SumTiles(SubSeq(clusters_found, 1, kept))
            /\ Cardinality({n \in DOMAIN events : IsShuffle(events[n])})
                   <= IF kept = 0 THEN 0 ELSE kept - 1
            /\ kept < Len(clusters_found) =>
                  LET dropped_f == clusters_found[kept + 1][1][1]
                  IN  \A n \in DOMAIN events :
                          ~IsAppear(events[n]) =>
                              events[n].ts_ms * fps < dropped_f * 1000

\* three clusters found, two kept with a shuffle event between them, the
\* third one dropped
C6_Witness ==
    /\ pc = "done"
    /\ args.expect_rounds = 2
    /\ Len(clusters_found) = 3
    /\ Len(clusters) = 2
    /\ \E n \in DOMAIN events : IsShuffle(events[n])
    /\ \E n \in DOMAIN events : events[n].detail = "green_round2"

\* C7: debounce.  Any two recorded flash events of the same tile are at
\* least 0.4 x fps frames apart.
C7_Debounce ==
    \A m, n \in DOMAIN green_events :
        (m < n /\ green_events[m][2] = green_events[n][2]) =>
            10 * (green_events[n][1] - green_events[m][1]) >= 4 * fps

\* the 100-frame, 10 fps input whose colour signal steps from 0 to 1000 at
\* frame 50, default arguments
Scenario ==
    /\ fps = 10
    /\ args = DefaultArgs
    /\ green_sig = <<[j \in 1..100 |-> IF j <= 50 THEN 0 ELSE 1000]>>

\* C8 as stated: in the scenario exactly one flash event is recorded, at
\* t = 5000 ms, with detail "green_round1".
C8_ScenarioOneFlash ==
    (pc = "done" /\ Scenario) =>
        /\ green_events = <<(<<50, 0>>)>>
        /\ events = <<VisualEvent(5000, "cell_0", "green_round1")>>

\* C8 (amended): in the scenario no flash event is recorded: the threshold
\* max(median + 3.5 * MAD, 92nd percentile) = max(500 + 3.5 * 500, 1000) is
\* above every sample, so green_events and the returned list are empty.
C8_ScenarioNoFlash ==
    (pc = "done" /\ Scenario) =>
        /\ green_events = <<>>
        /\ \A n \in DOMAIN events : ~IsFlash(events[n])

C8_Witness ==
    /\ pc = "done"
    /\ Scenario
    /\ GreenThreshold(green_sig[1], args.green_k) = 2250 * U
    /\ events = <<>>

----------------------------------------------------------------------------
(* Specification of _build_grid *)

MaxDim  == 9     \* width and height range over 1..MaxDim
MaxCols == 4     \* cols ranges over 1..MaxCols
MaxRows == 2     \* rows ranges over 1..MaxRows

\* padding fractions drawn: 0, 0.1, 0.25, 0.49 and, outside the contract, 0.6
PadSet == {<<0, 1>>, <<1, 10>>, <<1, 4>>, <<49, 100>>, <<3, 5>>}

InitGrid ==
    /\ pc = "start"
    /\ MergeIdle /\ DetectIdle /\ LocateIdle
    /\ ExtractIdle /\ MainIdle /\ MadIdle /\ ServiceIdle
    /\ width \in 1..MaxDim
    /\ height \in 1..MaxDim
    /\ cols \in 1..MaxCols
    /\ rows \in 1..MaxRows
    /\ pad \in PadSet
    /\ boxes = <<>>

BuildGridCall ==
    /\ pc = "start"
    /\ boxes' = BuildGrid(width, height, cols, rows, pad)
    /\ pc' = "done"
    /\ UNCHANGED <<width, height, cols, rows, pad>>
    /\ UNCHANGED <<mergeVars, detectVars, locateVars>>
    /\ UNCHANGED <<extractVars, mainVars, madVars, renderVars, rembgVars, streamVars>>

NextGrid == BuildGridCall

SpecGrid == InitGrid /\ [][NextGrid]_vars

\* C9: for w, h >= 1, cols, rows >= 1 and 0 <= pad < 0.5, _build_grid returns
\* exactly cols * rows rectangles in row-major order (rectangle r * cols + c
\* belongs to the cell of row r and column c), each with non-negative width
\* and height and lying within the frame.
C9_GridInFrame ==
    (pc = "done" /\ 2 * pad[1] < pad[2]) =>
        /\ Len(boxes) = cols * rows
        /\ \A k \in DOMAIN boxes :
              LET b == boxes[k]
                  c == (k - 1) % cols
                  r == (k - 1) \div cols
              IN  /\ b[3] >= 0 /\ b[4] >= 0
                  /\ 0 <= b[1] /\ b[1] + b[3] <= width
                  /\ 0 <= b[2] /\ b[2] + b[4] <= height
                  \* the box starts less than a pixel before its cell and
                  \* ends inside it
                  /\ c * width < cols * (b[1] + 1)
                  /\ cols * (b[1] + b[3]) <= (c + 1) * width
                  /\ r * height < rows * (b[2] + 1)
                  /\ rows * (b[2] + b[4]) <= (r + 1) * height

\* the 4 x 2 grid with padding 0.1 on a 9 x 9 frame: eight boxes, the last
\* one of positive size and ending short of the frame edge
C9_Witness ==
    /\ pc = "done"
    /\ cols = 4 /\ rows = 2 /\ pad = <<1, 10>>
    /\ width = MaxDim /\ height = MaxDim
    /\ Len(boxes) = 8
    /\ boxes[8][3] > 0 /\ boxes[8][4] > 0
    /\ boxes[8][1] + boxes[8][3] < width

----------------------------------------------------------------------------
(* Specification of the region location *)

MaxTail == 2     \* frames that follow the leading frames without contours

\* numbers of leading frames without any contour
LeadSet == {0, 1, max_probe - 1, max_probe}

\* contour bounding boxes (x, y, w, h) in crop coordinates
Box(c, r) == <<c * 120, r * 110, 100, 50>>

EightBoxes ==
    <<Box(3, 1), Box(2, 1), Box(1, 1), Box(0, 1),
      Box(3, 0), Box(2, 0), Box(1, 0), Box(0, 0)>>

\* kinds of frame: no contour; seven large boxes and small specks; eight
\* large boxes in reverse order with a speck; nine large boxes
FrameKinds ==
    {<<>>,
     <<(<<5, 5, 10, 10>>)>> \o SubSeq(EightBoxes, 1, 7) \o <<(<<7, 300, 60, 60>>)>>,
     <<(<<5, 5, 10, 10>>)>> \o EightBoxes,
     <<Box(1, 2)>> \o EightBoxes}

Repeat(x, n) == [j \in 1..n |-> x]

InitLocate ==
    /\ pc = "start"
    /\ MergeIdle /\ DetectIdle /\ GridIdle
    /\ ExtractIdle /\ MainIdle /\ MadIdle /\ ServiceIdle
    /\ \E opened, probe_opened \in BOOLEAN, dims \in {<<1000, 600>>, <<640, 360>>},
          lead \in LeadSet, tail \in SeqsUpTo(FrameKinds, MaxTail) :
          video = [opened |-> opened, probe_opened |-> probe_opened,
                   width |-> dims[1], height |-> dims[2],
                   frames |-> Repeat(<<>>, lead) \o tail]
    /\ grid_hint \in {<<4, 2>>, <<3, 2>>}
    /\ rects = <<>>

\* detect_round_events, lines 155-164
Locate ==
    /\ pc = "start"
    /\ IF ~video.opened
       THEN /\ pc' = "failed"             \* raise RuntimeError("Cannot open video")
            /\ rects' = rects
       ELSE /\ pc' = "located"
            /\ rects' = LocateRegions(video)
    /\ UNCHANGED <<video, grid_hint>>
    /\ UNCHANGED <<mergeVars, detectVars, gridVars>>
    /\ UNCHANGED <<extractVars, mainVars, madVars, renderVars, rembgVars, streamVars>>

NextLocate == Locate

SpecLocate == InitLocate /\ [][NextLocate]_vars

\* the large boxes of frame n, and whether frame n has enough of them
BigBoxes(n) == {k \in DOMAIN video.frames[n] :
                    video.frames[n][k][3] * video.frames[n][k][4] >= 4000}

GoodFrame(n) == Cardinality(BigBoxes(n)) >= 8

\* the probed frames that yield at least eight candidates
GoodProbed == {n \in DOMAIN video.frames : n <= 220 /\ GoodFrame(n)}

\* box b of the crop moved back into frame coordinates
InFrame(b) == <<b[1] + (8 * video.width) \div 100, b[2] + (18 * video.height) \div 100,
                b[3], b[4]>>

\* rects are the first eight candidates of frame n in (y, x) order
FirstEightOf(n) ==
    /\ \A k \in DOMAIN rects :
          \E j \in BigBoxes(n) : rects[k] = InFrame(video.frames[n][j])
    /\ \A k \in 1..(Len(rects) - 1) : KeyLess(rects[k], rects[k + 1])
    /\ \A j \in BigBoxes(n) :
          \/ \E k \in DOMAIN rects : rects[k] = InFrame(video.frames[n][j])
          \/ KeyLess(rects[Len(rects)], InFrame(video.frames[n][j]))

\* C10 as stated: the extractor is handed exactly N regions, N the tile count
\* the caller expects (here the --grid hint, cols * rows).
C10_CallerTileCount ==
    pc = "located" => Len(rects) = grid_hint[1] * grid_hint[2]

\* C10 (amended): the extractor is always handed exactly 8 regions, whatever
\* the caller's hint: the first 8 contour candidates in (y, x) order of the
\* first probed frame (among the first 220) with >= 8 candidates, or else the
\* 4 x 2 grid; locating regions never aborts a run whose video opened.
C10_EightRegions ==
    /\ pc = "failed" => ~video.opened
    /\ pc = "located" =>
          /\ Len(rects) = 8
          /\ IF video.probe_opened /\ GoodProbed # {}
             THEN FirstEightOf(CHOOSE n \in GoodProbed : \A m \in GoodProbed : n <= m)
             ELSE rects = BuildGrid(video.width, video.height, 4, 2, <<1, 10>>)

\* a video whose frame 221 is the first one with eight candidates: the grid
\* is used, although the caller hinted at a 3 x 2 layout
C10_Witness ==
    /\ pc = "located"
    /\ video.probe_opened
    /\ Len(video.frames) > 220
    /\ GoodFrame(221)
    /\ GoodProbed = {}
    /\ grid_hint = <<3, 2>>
    /\ rects = BuildGrid(video.width, video.height, 4, 2, <<1, 10>>)

\* nine candidates in one probed frame: the first eight in (y, x) order
C10_WitnessContours ==
    /\ pc = "located"
    /\ \E n \in GoodProbed : Cardinality(BigBoxes(n)) = 9 /\ FirstEightOf(n)
    /\ rects # BuildGrid(video.width, video.height, 4, 2, <<1, 10>>)

----------------------------------------------------------------------------
(* detect_round_events: opening the capture and the extraction loop *)
(* (lines 155-204), one action per step of the loop                 *)

\* fps = cap.get(cv2.CAP_PROP_FPS) or 30.0
CaptureFps(v) == IF v.fps = 0 THEN 30 ELSE v.fps

\* _border_green(frame, rect) for tile i (0-based): a frame of the model
\* records the count of green border pixels of every tile
BorderGreen(fr, i) == fr.green[i]

\* float(np.mean(cv2.absdiff(roi_prev, roi_next))) for frames of one gray
\* level each: the difference of the levels, whatever the rectangle
MeanAbsDiff(a, b) == Abs(a.gray - b.gray)

\* lines 155-173: open the capture, read fps and the frame size, locate the
\* rects, start the three signals
Open ==
    /\ pc = "call"
    /\ IF ~video.opened
       THEN /\ pc' = "raised"        \* raise RuntimeError("Cannot open video")
            /\ UNCHANGED <<fps, rects, green_sig, tile_diffs, diffs>>
       ELSE /\ pc' = "first"
            /\ fps' = CaptureFps(video)
            /\ rects' = LocateRegions(video)
            /\ green_sig' = [i \in 1..Len(LocateRegions(video)) |-> <<>>]
            /\ tile_diffs' = [i \in 1..Len(LocateRegions(video)) |-> <<>>]
            /\ diffs' = <<>>
    /\ UNCHANGED <<args, green_events, clusters_found, clusters, events>>
    /\ UNCHANGED <<video, grid_hint, extractVars>>
    /\ UNCHANGED <<mergeVars, gridVars, mainVars, madVars, renderVars, rembgVars, streamVars>>

\* variant of ReadFirst that goes on to the detection when there is no frame
ReadFirst_noraise ==
    /\ pc = "first"
    /\ IF cap_pos < Len(source)
       THEN /\ prev_frame' = source[cap_pos + 1]
            /\ cap_pos' = cap_pos + 1
            /\ pc' = "loop"
       ELSE /\ pc' = "start"
            /\ UNCHANGED <<prev_frame, cap_pos>>
    /\ UNCHANGED <<source, detectVars, mergeVars, gridVars, locateVars,
                   mainVars, madVars, renderVars, rembgVars, streamVars>>

\* lines 175-179: ok, prev = cap.read(); raise when there is no first frame
ReadFirst ==
    /\ pc = "first"
    /\ IF cap_pos < Len(source)
       THEN /\ prev_frame' = source[cap_pos + 1]
            /\ cap_pos' = cap_pos + 1
            /\ pc' = "loop"
       ELSE /\ pc' = "raised"        \* raise RuntimeError("Cannot read first frame")
            /\ UNCHANGED <<prev_frame, cap_pos>>
    /\ UNCHANGED <<source, detectVars, mergeVars, gridVars, locateVars,
                   mainVars, madVars, renderVars, rembgVars, streamVars>>

\* variant of AppendGreen that takes the colour sample only of a frame that
\* has a successor
AppendGreen_skiplast ==
    /\ pc = "loop"
    /\ green_sig' = IF cap_pos < Len(source)
                    THEN [i \in DOMAIN green_sig |->
                             Append(green_sig[i], BorderGreen(prev_frame, i - 1))]
                    ELSE green_sig
    /\ pc' = "read"
    /\ UNCHANGED <<args, fps, tile_diffs, diffs, green_events, clusters_found,
                   clusters, events>>
    /\ UNCHANGED <<extractVars, mergeVars, gridVars, locateVars, mainVars, madVars, renderVars, rembgVars, streamVars>>

\* lines 182-184: frame = prev; every tile's colour sample of that frame
AppendGreen ==
    /\ pc = "loop"
    /\ green_sig' = [i \in DOMAIN green_sig |->
                        Append(green_sig[i], BorderGreen(prev_frame, i - 1))]
    /\ pc' = "read"
    /\ UNCHANGED <<args, fps, tile_diffs, diffs, green_events, clusters_found,
                   clusters, events>>
    /\ UNCHANGED <<extractVars, mergeVars, gridVars, locateVars, mainVars, madVars, renderVars, rembgVars, streamVars>>

\* lines 186-204: ok, nxt = cap.read(); break when there is no next frame,
\* else the difference samples of the pair (prev, nxt), and prev = nxt
ReadNext ==
    /\ pc = "read"
    /\ IF cap_pos < Len(source)
       THEN /\ tile_diffs' = [i \in DOMAIN tile_diffs |->
                                 Append(tile_diffs[i],
                                        MeanAbsDiff(prev_frame, source[cap_pos + 1]))]
            /\ diffs' = Append(diffs, MeanAbsDiff(prev_frame, source[cap_pos + 1]))
            /\ prev_frame' = source[cap_pos + 1]
            /\ cap_pos' = cap_pos + 1
            /\ pc' = "loop"
       ELSE /\ pc' = "start"         \* break; cap.release()
            /\ UNCHANGED <<tile_diffs, diffs, prev_frame, cap_pos>>
    /\ UNCHANGED <<source, args, fps, green_sig, green_events, clusters_found,
                   clusters, events>>
    /\ UNCHANGED <<mergeVars, gridVars, locateVars, mainVars, madVars, renderVars, rembgVars, streamVars>>

----------------------------------------------------------------------------
(* Specification of detect_round_events as a whole: the capture is opened, *)
(* the frames are read one by one, the events are detected                 *)

MaxSource == 3    \* most frames of the source

\* per-tile counts of green border pixels: no tile green, the first tile
\* green, every tile green
GreenPatterns ==
    {[i \in 0..(TileCount - 1) |-> 0],
     [i \in 0..(TileCount - 1) |-> IF i = 0 THEN 10 ELSE 0],
     [i \in 0..(TileCount - 1) |-> 10]}

\* frames: a green pattern and one gray level
FrameSet == [green : GreenPatterns, gray : {0, 9}]

\* a file that opens or not, without dark-bordered tiles, at 5 frames per
\* second, with the frames of src
VideoOf(opened, src) ==
    [opened |-> opened, probe_opened |-> opened, fps |-> 5,
     width |-> 1000, height |-> 600,
     frames |-> [j \in DOMAIN src |-> <<>>]]

InitExtract ==
    /\ pc = "call"
    /\ MergeIdle /\ GridIdle /\ MainIdle /\ MadIdle /\ ServiceIdle
    /\ DetectOutputsEmpty
    /\ args = DefaultArgs
    /\ fps = 0
    /\ green_sig = <<>> /\ tile_diffs = <<>> /\ diffs = <<>>
    /\ source \in SeqsUpTo(FrameSet, MaxSource)
    /\ \E opened \in BOOLEAN : video = VideoOf(opened, source)
    /\ grid_hint = <<4, 2>>
    /\ rects = <<>>
    /\ cap_pos = 0
    /\ prev_frame = "None"

NextExtract ==
    \/ Open
    \/ ReadFirst
    \/ AppendGreen
    \/ ReadNext
    \/ DetectRoundEvents

SpecExtract == InitExtract /\ [][NextExtract]_vars

\* C11: after the extraction loop over a source of T >= 1 frames, every
\* tile's color signal has T samples, the sample of every frame in order,
\* every tile's diff signal and the global diff signal have T - 1 samples,
\* the sample of every pair of consecutive frames in order, and the capture
\* has delivered every frame once.
C11_SignalLengths ==
    pc \in {"start", "done"} =>
        LET T == Len(source)
        IN  /\ T >= 1
            /\ cap_pos = T
            /\ Len(green_sig) = Len(rects)
            /\ Len(tile_diffs) = Len(rects)
            /\ \A i \in DOMAIN green_sig :
                  /\ Len(green_sig[i]) = T
                  /\ \A j \in 1..T : green_sig[i][j] = source[j].green[i - 1]
            /\ \A i \in DOMAIN tile_diffs :
                  /\ Len(tile_diffs[i]) = T - 1
                  /\ \A j \in 1..(T - 1) :
                        tile_diffs[i][j] = Abs(source[j].gray - source[j + 1].gray)
            /\ Len(diffs) = T - 1
            /\ \A j \in 1..(T - 1) :
                  diffs[j] = Abs(source[j].gray - source[j + 1].gray)

\* the loop has ended on a source of three frames whose colour and gray
\* level change
C11_Witness ==
    /\ pc = "start"
    /\ Len(source) = 3
    /\ Len(rects) = TileCount
    /\ green_sig[1] = <<0, 10, 0>>
    /\ diffs = <<9, 0>>

\* C12: if the frame source cannot be opened or yields no frame,
\* detect_round_events raises: the run never gets beyond the first read, it
\* ends in the raised state, and no event is ever produced.
C12_FailsWithoutEvents ==
    (~video.opened \/ source = <<>>) =>
        /\ pc \in {"call", "first", "raised"}
        /\ (pc = "first" => video.opened)
        /\ cap_pos = 0
        /\ green_events = <<>>
        /\ events = <<>>

\* a file that opens and holds no frame has made the call raise
C12_Witness ==
    /\ pc = "raised"
    /\ video.opened
    /\ source = <<>>
    /\ events = <<>>

C12_WitnessNotOpened ==
    /\ pc = "raised"
    /\ ~video.opened
    /\ source # <<>>
    /\ events = <<>>

----------------------------------------------------------------------------
(* main (lines 460-525): the arguments, detect_round_events, the rows *)

\* the keyword arguments main passes (lines 493-502) with the defaults of
\* the command line (lines 468-474); appear_diff_k is not passed
MainArgs(no_force_shuffle) ==
    [DefaultArgs EXCEPT !.appear_k = <<3, 1>>,
                        !.shuffle_k = <<3, 1>>,
                        !.appear_min_ms = 2000,
                        !.force_shuffle = ~no_force_shuffle]

\* (e.ts_ms, e.label, e.detail)
RowOf(e) == <<e.ts_ms, e.label, e.detail>>

\* lines 503-504: merged = [(e.ts_ms, e.label, e.detail) for e in events];
\* write_csv(merged, args.csv)
WriteCsv ==
    /\ pc = "done"
    /\ csv_rows' = [n \in DOMAIN events |-> RowOf(events[n])]
    /\ pc' = "written"
    /\ UNCHANGED <<mergeVars, detectVars, gridVars, locateVars, extractVars, madVars, renderVars, rembgVars, streamVars>>

----------------------------------------------------------------------------
(* Specification of main on a file with an audio track *)

\* frames without green and with the first tile's border green
Dark(level) == [green |-> [i \in 0..(TileCount - 1) |-> 0], gray |-> level]
Lit(level)  == [green |-> [i \in 0..(TileCount - 1) |-> IF i = 0 THEN 10 ELSE 0],
                gray |-> level]

\* the clips main is run on: no frame, a flash on the second of two frames,
\* a flash on the second of three frames
MainSources == {<<>>, <<Dark(0), Lit(0)>>, <<Dark(0), Lit(9), Dark(9)>>}

\* audio_ms holds the onsets of the file's audio track (what
\* detect_audio_onsets yields for it) and tolerance_ms the merge window
InitMain ==
    /\ pc = "call"
    /\ GridIdle /\ MainIdle /\ MadIdle /\ ServiceIdle
    /\ DetectOutputsEmpty
    /\ \E no_force_shuffle \in BOOLEAN : args = MainArgs(no_force_shuffle)
    /\ fps = 0
    /\ green_sig = <<>> /\ tile_diffs = <<>> /\ diffs = <<>>
    /\ source \in MainSources
    /\ \E opened \in BOOLEAN : video = VideoOf(opened, source)
    /\ grid_hint = <<4, 2>>
    /\ rects = <<>>
    /\ cap_pos = 0
    /\ prev_frame = "None"
    /\ audio_ms \in SeqsUpTo({0, 200}, MaxAudio)
    /\ visuals = <<>>
    /\ tolerance_ms = 120
    /\ output = <<>>

NextMain ==
    \/ NextExtract
    \/ WriteCsv

SpecMain == InitMain /\ [][NextMain]_vars

\* C13: the rows the command-line run writes are the output of the
\* cross-modal merger: merge_events applied to the audio onsets of the file
\* and to the detected visual events, so that every onset shows as an
\* "audio+visual" or "audio_only" row.
C13_RowsAreMerged ==
    pc = "written" => csv_rows = merge_events(audio_ms, events, tolerance_ms)

----------------------------------------------------------------------------
(* Properties of the returned event list, checked on SpecDetect *)

\* C14: the list detect_round_events returns (appear, flash and shuffle
\* events together) is ascending by timestamp.
C14_EventsSorted ==
    pc = "done" =>
        \A n \in 1..(Len(events) - 1) : events[n].ts_ms <= events[n + 1].ts_ms

\* the list holds the three kinds of event, and a shuffle event (created
\* last) stands before a flash event
C14_Witness ==
    /\ pc = "done"
    /\ \E n \in DOMAIN events : IsAppear(events[n])
    /\ \E m, n \in DOMAIN events :
          m < n /\ IsShuffle(events[m]) /\ IsFlash(events[n])

\* the earliest flash frame over all tiles
EarliestFlash == CHOOSE f \in {green_events[m][1] : m \in DOMAIN green_events} :
                     \A m \in DOMAIN green_events : f <= green_events[m][1]

\* C16: the appear window of every tile ends at the earliest flash frame
\* over all tiles (the full series without flash events), so no appear
\* event lies later than the earliest flash event of any tile.
C16_AppearBeforeFirstFlash ==
    (pc = "done" /\ green_events # <<>>) =>
        /\ FirstGreenFrame(green_events, tile_diffs) = EarliestFlash
        /\ \A n \in DOMAIN events :
              IsAppear(events[n]) => events[n].ts_ms * fps <= EarliestFlash * 1000

\* for the pair of kept rounds (c, c + 1), c counted from 1: the last flash
\* frame of round c and the first flash frame of round c + 1
LastFlash(c)  == clusters[c][Len(clusters[c])][1]
FirstFlash(c) == clusters[c][1][1]

\* the frames strictly between the two rounds
Between(c) == (LastFlash(c) + 1)..(FirstFlash(c + 1) - 1)

\* the shuffle events of the returned list for the gap after round c
ShuffleName(c) == "shuffle_round" \o ToString(c + 1)

ShufflesOf(c) ==
    {n \in DOMAIN events :
        /\ events[n].label = "layout"
        /\ events[n].detail \in {ShuffleName(c), ShuffleName(c) \o "_lowconf"}}

\* C18: with force_shuffle set, every adjacent pair of kept rounds with a
\* frame strictly between them yields exactly one shuffle event, at the
\* frame of the largest global diff of that range, and a pair without a
\* frame between them yields none.
C18_OneShufflePerGap ==
    (pc = "done" /\ args.force_shuffle /\ diffs # <<>>) =>
        \A c \in 1..(Len(clusters) - 1) :
            IF Between(c) = {}
            THEN ShufflesOf(c) = {}
            ELSE /\ Cardinality(ShufflesOf(c)) = 1
                 /\ \A n \in ShufflesOf(c) :
                       \E j \in Between(c) :
                           /\ events[n].ts_ms * fps = (j + 1) * 1000
                           /\ \A k \in Between(c) : diffs[k + 1] <= diffs[j + 1]

\* the window the code takes for the gap after round c, as 0-based indices
\* of the global diff signal, and its largest value
WindowOf(c) ==
    IF FirstFlash(c + 1) - 1 <= LastFlash(c) + 1 THEN {}
    ELSE {j \in (LastFlash(c) + 1)..(FirstFlash(c + 1) - 2) : j < Len(diffs)}

PeakOf(c) == CHOOSE v \in {diffs[j + 1] : j \in WindowOf(c)} :
                 \A j \in WindowOf(c) : diffs[j + 1] <= v

\* C19: the shuffle event of the gap after round i (zero-based) has label
\* "layout" and detail "shuffle_round{i+2}"; the detail ends in "_lowconf"
\* exactly when the peak does not exceed median + shuffle_k * MAD; such an
\* event exists only with force_shuffle set, and without force_shuffle a
\* peak that does not exceed the threshold gives no event.
C19_ShuffleLabels ==
    pc = "done" =>
        /\ \A n \in DOMAIN events :
              IsShuffle(events[n]) =>
                  \E c \in 1..(Len(clusters) - 1) : n \in ShufflesOf(c)
        /\ \A c \in 1..(Len(clusters) - 1) :
              IF WindowOf(c) = {} THEN ShufflesOf(c) = {}
              ELSE LET above == PeakOf(c) * U > ShuffleThreshold(diffs, args.shuffle_k)
                   IN  /\ above =>
                            /\ Cardinality(ShufflesOf(c)) = 1
                            /\ \A n \in ShufflesOf(c) :
                                  events[n].detail = ShuffleName(c)
                       /\ (~above /\ args.force_shuffle) =>
                            /\ Cardinality(ShufflesOf(c)) = 1
                            /\ \A n \in ShufflesOf(c) :
                                  events[n].detail = ShuffleName(c) \o "_lowconf"
                       /\ (~above /\ ~args.force_shuffle) => ShufflesOf(c) = {}

\* a forced low-confidence shuffle event
C19_Witness ==
    /\ pc = "done"
    /\ args.force_shuffle
    /\ \E n \in DOMAIN events :
          events[n] = VisualEvent(FramesToMs(4, fps), "layout", "shuffle_round2_lowconf")

\* a shuffle event whose peak is above the threshold
C19_WitnessConfident ==
    /\ pc = "done"
    /\ ~args.force_shuffle
    /\ \E n \in DOMAIN events :
          events[n].label = "layout" /\ events[n].detail = "shuffle_round2"

\* a peak below the threshold without force_shuffle: no event
C19_WitnessSilent ==
    /\ pc = "done"
    /\ ~args.force_shuffle
    /\ Len(clusters) = 2
    /\ WindowOf(1) # {}
    /\ \A n \in DOMAIN events : ~IsShuffle(events[n])

\* the flash frames of tile t (0-based) in kept round c
FlashFramesOf(c, t) ==
    {clusters[c][n][1] : n \in {k \in DOMAIN clusters[c] : clusters[c][k][2] = t}}

\* the flash events of the returned list for tile t in round c
FlashesOf(c, t) ==
    {n \in DOMAIN events :
        /\ events[n].label = "cell_" \o ToString(t)
        /\ events[n].detail = "green_round" \o ToString(c)}

\* C20: in every kept round a tile that flashed has exactly one flash event,
\* at its earliest flash frame of the round and with detail
\* "green_round{n}" for the round's number n counted from 1; a tile that did
\* not flash in the round has none.
C20_OneFlashPerTile ==
    pc = "done" =>
        /\ \A n \in DOMAIN events :
              IsFlash(events[n]) =>
                  \E c \in DOMAIN clusters, t \in 0..(Len(green_sig) - 1) :
                      n \in FlashesOf(c, t)
        /\ \A c \in DOMAIN clusters, t \in 0..(Len(green_sig) - 1) :
              IF FlashFramesOf(c, t) = {} THEN FlashesOf(c, t) = {}
              ELSE /\ Cardinality(FlashesOf(c, t)) = 1
                   /\ \A n \in FlashesOf(c, t) :
                         \A f \in FlashFramesOf(c, t) :
                             events[n].ts_ms * fps <= f * 1000
                   /\ \A n \in FlashesOf(c, t) :
                         \E f \in FlashFramesOf(c, t) :
                             events[n].ts_ms * fps = f * 1000

\* a kept round in which one tile flashed twice
C20_Witness ==
    /\ pc = "done"
    /\ \E c \in DOMAIN clusters :
          \E m, n \in DOMAIN clusters[c] :
              /\ m < n
              /\ clusters[c][m][2] = clusters[c][n][2]
              /\ clusters[c][m][1] < clusters[c][n][1]
    /\ \E n \in DOMAIN events : IsFlash(events[n])

----------------------------------------------------------------------------
(* Specification of _mad on short series of small whole numbers *)

MaxMadLen == 4    \* longest series
MaxSample == 2    \* samples range over 0..MaxSample

InitMad ==
    /\ pc = "start"
    /\ MergeIdle /\ DetectIdle /\ GridIdle /\ LocateIdle /\ ExtractIdle /\ MainIdle
    /\ ServiceIdle
    /\ mad_arr \in SeqsUpTo(0..MaxSample, MaxMadLen) \ {<<>>}
    /\ mad_ret = 0

\* the call _mad(arr); the result is kept in units of 1/U
MadCall ==
    /\ pc = "start"
    /\ mad_ret' = Mad(Scaled(mad_arr))
    /\ pc' = "done"
    /\ UNCHANGED <<mad_arr, mergeVars, detectVars, gridVars, locateVars,
                   extractVars, mainVars, renderVars, rembgVars, streamVars>>

NextMad == MadCall

SpecMad == InitMad /\ [][NextMad]_vars

\* the k-th smallest element of a series, by counting
KthSmallest(arr, k) ==
    CHOOSE v \in {arr[i] : i \in DOMAIN arr} :
        /\ Cardinality({i \in DOMAIN arr : arr[i] < v}) < k
        /\ k <= Cardinality({i \in DOMAIN arr : arr[i] <= v})

\* twice the median of a series: the sum of its two middle elements
TwiceMedian(arr) ==
    KthSmallest(arr, (Len(arr) + 1) \div 2) + KthSmallest(arr, Len(arr) \div 2 + 1)

\* four times the median absolute deviation of mad_arr: the deviations
\* from the median, doubled, are whole numbers
FourTimesRawMad ==
    TwiceMedian([i \in DOMAIN mad_arr |-> Abs(2 * mad_arr[i] - TwiceMedian(mad_arr))])

\* C17 as stated: the value _mad returns is at least 1.0 for every series.
C17_MadAtLeastOne ==
    pc = "done" => mad_ret >= U

\* C17 (amended): _mad returns 1.0 when the median absolute deviation is
\* exactly 0 and the median absolute deviation itself otherwise, so the
\* value is always above 0 but can be below 1.0.
C17_MadZeroGuard ==
    pc = "done" =>
        /\ mad_ret > 0
        /\ FourTimesRawMad = 0 => mad_ret = U
        /\ FourTimesRawMad # 0 => 4 * mad_ret = FourTimesRawMad * U

\* the series 0, 0, 1, 1 has median 0.5 and median absolute deviation 0.5,
\* which is returned as it is
C17_Witness ==
    /\ pc = "done"
    /\ mad_arr = <<0, 0, 1, 1>>
    /\ 2 * mad_ret = U

\* a flat series gets 1.0
C17_WitnessFlat ==
    /\ pc = "done"
    /\ mad_arr = <<1, 1, 1>>
    /\ mad_ret = U

----------------------------------------------------------------------------
(* Specification of the detection on signals with samples of three       *)
(* heights: the rising edges, the appear windows and flat series         *)

\* sample heights of the families below
Heights == {0, 3, 10}

\* a series of n samples that is h[f] on the frames f of DOMAIN h, else 0
Shaped(h, n) == [j \in 1..n |-> IF (j - 1) \in DOMAIN h THEN h[j - 1] ELSE 0]

\* family 3: the colour signal of the first tile takes any height on
\* frames 1..4, the second tile is green on frame 2; still picture
InitFlash ==
    /\ fps \in FpsSet
    /\ \E h \in [1..4 -> Heights] :
          green_sig = <<Shaped(h, NumFrames), Pulses({2}, NumFrames)>>
    /\ diffs = Flat(NumFrames - 1)
    /\ tile_diffs = <<Flat(NumFrames - 1), Flat(NumFrames - 1)>>
    /\ \E k \in {<<7, 2>>, <<1, 2>>} : args = [DefaultArgs EXCEPT !.green_k = k]

\* family 4: the diff signal of the first tile takes any height on its
\* samples 0..3, the second tile has one spike; no tile is ever green, or the
\* first tile is green on frame 6 or on frame 2
InitAppear ==
    /\ fps = 5
    /\ \E H \in {{}, {6}, {2}} :
          green_sig = <<Pulses(H, NumFrames), Flat(NumFrames)>>
    /\ diffs = Flat(NumFrames - 1)
    /\ \E h \in [0..3 -> Heights] :
          tile_diffs = <<Shaped(h, NumFrames - 1), Spike(1, NumFrames - 1)>>
    /\ \E ms \in {0, 400, 2000} : args = [DefaultArgs EXCEPT !.appear_min_ms = ms]

MaxFlatLen == 8    \* most frames of a flat capture

\* family 5: one tile, every colour sample the same and every diff sample
\* the same, any number of frames, small and large multipliers
InitFlat ==
    /\ fps = 5
    /\ \E n \in 1..MaxFlatLen, c \in {0, 1, 10}, d \in {0, 2} :
          /\ green_sig = <<[j \in 1..n |-> c]>>
          /\ tile_diffs = <<[j \in 1..(n - 1) |-> d]>>
          /\ diffs = [j \in 1..(n - 1) |-> d]
    /\ \E k \in {<<1, 100>>, <<1, 2>>, <<7, 2>>} :
          args = [DefaultArgs EXCEPT !.green_k = k, !.appear_diff_k = k,
                                     !.shuffle_k = k]

InitEdges ==
    /\ pc = "start"
    /\ MergeIdle /\ GridIdle /\ LocateIdle
    /\ ExtractIdle /\ MainIdle /\ MadIdle /\ ServiceIdle
    /\ DetectOutputsEmpty
    /\ (InitFlash \/ InitAppear \/ InitFlat)

SpecEdges == InitEdges /\ [][NextDetect]_vars

\* the colour signal of tile i (0-based)
SeriesOf(i) == green_sig[i + 1]

\* 4 * green_k[2] * (median + green_k * MAD) of a series, with MAD read as
\* 1 when it is 0, from the order statistics
FourTimesMadOf(arr) ==
    LET m == TwiceMedian([j \in DOMAIN arr |-> Abs(2 * arr[j] - TwiceMedian(arr))])
    IN  IF m = 0 THEN 4 ELSE m

ScaledBase(arr, k) == 2 * k[2] * TwiceMedian(arr) + k[1] * FourTimesMadOf(arr)

\* 100 * (q-th percentile) of a series, by linear interpolation between
\* the order statistics around position q / 100 * (n - 1)
HundredTimesPercentile(arr, q) ==
    LET n   == Len(arr)
        lo  == (q * (n - 1)) \div 100
        fr  == (q * (n - 1)) % 100
        a   == KthSmallest(arr, lo + 1)
        b   == KthSmallest(arr, IF lo + 2 <= n THEN lo + 2 ELSE n)
    IN  100 * a + fr * (b - a)

\* x > max(median + green_k * MAD, 92nd percentile) of the series of tile i
AboveGreen(i, x) ==
    /\ 4 * args.green_k[2] * x > ScaledBase(SeriesOf(i), args.green_k)
    /\ 100 * x > HundredTimesPercentile(SeriesOf(i), 92)

\* frame f (0-based, f >= 1) is a rising edge of tile i
RisingEdge(i, f) ==
    /\ f >= 1 /\ f < Len(SeriesOf(i))
    /\ AboveGreen(i, SeriesOf(i)[f + 1])
    /\ ~AboveGreen(i, SeriesOf(i)[f])

RisingEdges(i) == {f \in 1..(Len(SeriesOf(i)) - 1) : RisingEdge(i, f)}

\* C21: every recorded flash event (f, i) is at a rising edge of tile i's
\* colour signal over max(median + green_k * MAD, 92nd percentile); the
\* first rising edge of every tile is recorded; every flash event of the
\* returned list has timestamp f / fps * 1000 for a recorded flash (f, i)
\* and the label of tile i.
C21_RisingEdges ==
    pc = "done" =>
        /\ \A m \in DOMAIN green_events :
              RisingEdge(green_events[m][2], green_events[m][1])
        /\ \A i \in 0..(Len(green_sig) - 1) :
              RisingEdges(i) # {} =>
                  \E m \in DOMAIN green_events :
                      /\ green_events[m][2] = i
                      /\ green_events[m][1] \in RisingEdges(i)
                      /\ \A f \in RisingEdges(i) : green_events[m][1] <= f
        /\ \A n \in DOMAIN events :
              IsFlash(events[n]) =>
                  \E m \in DOMAIN green_events :
                      /\ events[n].ts_ms * fps = green_events[m][1] * 1000
                      /\ events[n].label = "cell_" \o ToString(green_events[m][2])

\* the first tile has a sample above the threshold right after another one
\* above it (no rising edge there), its rising edge is recorded and emitted
C21_Witness ==
    /\ pc = "done"
    /\ \E f \in 2..4 :
          /\ AboveGreen(0, SeriesOf(0)[f + 1])
          /\ AboveGreen(0, SeriesOf(0)[f])
          /\ <<f - 1, 0>> \in {green_events[m] : m \in DOMAIN green_events}
    /\ \E n \in DOMAIN events : IsFlash(events[n]) /\ events[n].label = "cell_0"

\* the appear window of tile i (0-based): the diff samples before
\* first_green_frame, or all of them
WindowEnd(i) ==
    LET first == FirstGreenFrame(green_events, tile_diffs)
        n     == Len(tile_diffs[i + 1])
    IN  IF first > 0 /\ first < n THEN first ELSE n

AppearWindow(i) == SubSeq(tile_diffs[i + 1], 1, WindowEnd(i))

\* x >= max(97th percentile, median + appear_diff_k * MAD) of the window
MeetsAppear(i, x) ==
    /\ 100 * x >= HundredTimesPercentile(AppearWindow(i), 97)
    /\ 4 * args.appear_diff_k[2] * x >= ScaledBase(AppearWindow(i), args.appear_diff_k)

\* the window samples (0-based) of tile i that meet the threshold, and
\* those among them whose timestamp (idx + 1) * 1000 / fps is late enough
Strong(i) ==
    {idx \in 0..(WindowEnd(i) - 1) : MeetsAppear(i, tile_diffs[i + 1][idx + 1])}

Qualifying(i) ==
    {idx \in Strong(i) : (idx + 1) * 1000 >= args.appear_min_ms * fps}

AppearsOf(i) ==
    {n \in DOMAIN events :
        IsAppear(events[n]) /\ events[n].label = "cell_" \o ToString(i)}

\* C22: every tile gets at most one appear event: at the first window
\* sample that meets the threshold and whose timestamp is >=
\* appear_min_ms; a tile whose window is shorter than 5 samples or has no
\* such sample gets none, whatever the other tiles get.
C22_OneAppearPerTile ==
    pc = "done" =>
        /\ \A n \in DOMAIN events :
              IsAppear(events[n]) =>
                  \E i \in 0..(Len(tile_diffs) - 1) : n \in AppearsOf(i)
        /\ \A i \in 0..(Len(tile_diffs) - 1) :
              IF WindowEnd(i) < 5 \/ Qualifying(i) = {}
              THEN AppearsOf(i) = {}
              ELSE /\ Cardinality(AppearsOf(i)) = 1
                   /\ \A n \in AppearsOf(i) :
                         /\ \E idx \in Qualifying(i) :
                               events[n].ts_ms * fps = (idx + 1) * 1000
                         /\ \A idx \in Qualifying(i) :
                               events[n].ts_ms * fps <= (idx + 1) * 1000

\* the first tile has two samples that meet the threshold, the earlier one
\* too early for appear_min_ms, and its appear event is at the later one
C22_Witness ==
    /\ pc = "done"
    /\ Cardinality(Strong(0)) >= 2
    /\ Strong(0) \ Qualifying(0) # {}
    /\ Qualifying(0) # {}
    /\ Cardinality(AppearsOf(0)) = 1

\* the first tile gets no appear event and the second tile gets one
C22_WitnessOtherTile ==
    /\ pc = "done"
    /\ WindowEnd(0) >= 5
    /\ AppearsOf(0) = {}
    /\ Cardinality(AppearsOf(1)) = 1

\* every sample of a series is the same
Constant(arr) == \A j, k \in DOMAIN arr : arr[j] = arr[k]

----------------------------------------------------------------------------
(* Further properties of the returned event list, checked on SpecDetect *)

\* the number of events of the returned list that satisfy a predicate
CountEvents(P(_)) == Cardinality({n \in DOMAIN events : P(events[n])})

\* C26: for expect_rounds >= 1 and N tiles (8 in the code) the returned list
\* has at most N appear + N green + (1 + N) * (expect_rounds - 1) events: at
\* most one appear event per tile, one green event per tile and kept round,
\* one shuffle event per adjacent pair of kept rounds.
C26_EventBudget ==
    (pc = "done" /\ args.expect_rounds >= 1) =>
        LET N == Len(green_sig)
        IN  /\ Len(clusters) <= args.expect_rounds
            /\ \A i \in 0..(N - 1) : Cardinality(AppearsOf(i)) <= 1
            /\ \A c \in DOMAIN clusters, t \in 0..(N - 1) :
                  Cardinality(FlashesOf(c, t)) <= 1
            /\ \A c \in 1..(Len(clusters) - 1) : Cardinality(ShufflesOf(c)) <= 1
            /\ CountEvents(IsAppear) <= N
            /\ CountEvents(IsFlash) <= N * args.expect_rounds
            /\ CountEvents(IsShuffle) <= args.expect_rounds - 1
            /\ Len(events) <= N + N + (1 + N) * (args.expect_rounds - 1)

\* with one round expected, every tile has appeared and flashed: the list
\* is as long as the budget allows
C26_Witness ==
    /\ pc = "done"
    /\ args.expect_rounds = 1
    /\ Len(clusters_found) >= 1
    /\ CountEvents(IsAppear) = Len(green_sig)
    /\ CountEvents(IsFlash) = Len(green_sig)
    /\ Len(events) = 2 * Len(green_sig)

\* C27: every shuffle event of the gap between kept rounds i and i + 1 is
\* later than every flash of round i and earlier than every flash of round
\* i + 1, and the index (timestamp * fps / 1000 - 1) it was read from lies
\* inside the global diff signal.
C27_ShuffleBetweenRounds ==
    pc = "done" =>
        \A c \in 1..(Len(clusters) - 1) :
            \A n \in ShufflesOf(c) :
                /\ \A k \in DOMAIN clusters[c] :
                      clusters[c][k][1] * 1000 < events[n].ts_ms * fps
                /\ \A k \in DOMAIN clusters[c + 1] :
                      events[n].ts_ms * fps < clusters[c + 1][k][1] * 1000
                /\ \E j \in 0..(Len(diffs) - 1) :
                      events[n].ts_ms * fps = (j + 1) * 1000

\* a shuffle event in the narrowest gap that gets one: two frames between
\* the rounds
C27_Witness ==
    /\ pc = "done"
    /\ Len(clusters) = 2
    /\ FirstFlash(2) = LastFlash(1) + 3
    /\ Cardinality(ShufflesOf(1)) = 1

----------------------------------------------------------------------------
(* A further property of merge_events, checked on SpecMerge *)

\* visual events i and j print the same "{label}:{detail}"
SameDetail(i, j) ==
    visuals[i].label = visuals[j].label /\ visuals[i].detail = visuals[j].detail

\* the "audio+visual" rows of the output that print visual event i
MergedRowsOf(i) ==
    {n \in DOMAIN output :
        /\ output[n][2] = "audio+visual"
        /\ output[n][3] = visuals[i].label \o ":" \o visuals[i].detail}

\* C23: the two lookups of the merger are independent: a visual event that is
\* within tolerance_ms of some audio onset while no onset claims it (nor an
\* event printing the same detail) is in the output neither as a standalone
\* row nor in the detail of an "audio+visual" row; such inputs exist.
C23_SuppressedUnclaimed ==
    pc = "done" =>
        \A i \in DOMAIN visuals :
            (NearAudio(i) /\ \A j \in DOMAIN visuals : SameDetail(i, j) => ~Claimed(j)) =>
                /\ Count(output, StandaloneRow(visuals[i])) = 0
                /\ MergedRowsOf(i) = {}

\* an onset within tolerance of two visual events: the nearest one is
\* merged, the other one is gone from the output
C23_Witness ==
    /\ pc = "done"
    /\ \E i, j \in DOMAIN visuals, k \in DOMAIN audio_ms :
          /\ i # j /\ ~SameDetail(i, j)
          /\ Dist(i, audio_ms[k]) <= tolerance_ms
          /\ NearestVisual(audio_ms[k]) = j
          /\ ~Claimed(i)
          /\ MergedRowsOf(j) # {}
          /\ Count(output, StandaloneRow(visuals[i])) = 0
          /\ MergedRowsOf(i) = {}

----------------------------------------------------------------------------
(* render_flashes (lines 334-381): the frames that get the border.         *)
(* Window bounds are kept in half milliseconds (2 * ts -+ flash_ms), and a *)
(* frame's timestamp frame_idx / fps * 1000 is compared with a bound b by  *)
(* frame_idx * 2000 against b * fps, which is exact.  The transcoding by   *)
(* ffmpeg after the loop does not change which frames are highlighted.     *)

\* fps = cap.get(cv2.CAP_PROP_FPS) or 30.0
RenderFps(v) == IF v = 0 THEN 30 ELSE v

\* _windows_from_events: [(ts - half, ts + half) for ts, _, _ in events]
WindowsFromEvents(evs, fl) ==
    [n \in DOMAIN evs |-> <<2 * evs[n][1] - fl, 2 * evs[n][1] + fl>>]

\* variant of SortWindows that leaves the windows in event order
SortWindows_none(ws) == ws

\* windows.sort(key=lambda w: w[0])
SortWindows(ws) == SortByTs(ws)

\* while w_idx + 1 < len(windows) and ts_ms > windows[w_idx][1]: w_idx += 1
RECURSIVE AdvanceWindow(_, _, _, _)
AdvanceWindow(ws, w, f, rate) ==
    IF w + 1 < Len(ws) /\ f * 2000 > ws[w + 1][2] * rate
    THEN AdvanceWindow(ws, w + 1, f, rate)
    ELSE w

\* if windows: start, end = windows[w_idx]; flash = start <= ts_ms <= end
FlashAt(ws, w, f, rate) ==
    /\ ws # <<>>
    /\ ws[w + 1][1] * rate <= f * 2000
    /\ f * 2000 <= ws[w + 1][2] * rate

\* lines 344-360: open the capture, build and sort the windows
RenderOpen ==
    /\ pc = "start"
    /\ IF ~video.opened
       THEN /\ pc' = "raised"
            /\ UNCHANGED <<windows, w_idx, frame_idx>>
       ELSE /\ windows' = SortWindows(WindowsFromEvents(flash_events, flash_ms))
            /\ w_idx' = 0
            /\ frame_idx' = 0
            /\ pc' = "render"
    /\ UNCHANGED <<flash_events, flash_ms, render_fps, n_frames, flashed>>
    /\ UNCHANGED <<mergeVars, detectVars, gridVars, locateVars, extractVars,
                   mainVars, madVars, rembgVars, streamVars>>

\* one iteration of the loop of lines 362-381 whose read succeeds
RenderFrame ==
    /\ pc = "render"
    /\ frame_idx < n_frames
    /\ LET rate == RenderFps(render_fps)
           w    == AdvanceWindow(windows, w_idx, frame_idx, rate)
       IN  /\ w_idx' = w
           /\ flashed' = Append(flashed, FlashAt(windows, w, frame_idx, rate))
    /\ frame_idx' = frame_idx + 1
    /\ UNCHANGED <<pc, flash_events, flash_ms, render_fps, n_frames, windows>>
    /\ UNCHANGED <<mergeVars, detectVars, gridVars, locateVars, extractVars,
                   mainVars, madVars, rembgVars, streamVars>>

\* the read that fails: break
RenderEnd ==
    /\ pc = "render"
    /\ frame_idx = n_frames
    /\ pc' = "done"
    /\ UNCHANGED renderVars
    /\ UNCHANGED <<mergeVars, detectVars, gridVars, locateVars, extractVars,
                   mainVars, madVars, rembgVars, streamVars>>

MaxFlashEvents == 3    \* events handed to render_flashes
MaxFlashTs     == 3    \* their timestamps range over 0..MaxFlashTs (ms)
MaxFlashMs     == 3    \* flash_ms ranges over -1..MaxFlashMs
MaxFrames      == 6    \* frames of the clip

\* frame rates: not reported (30 is used), 500 and 1000 frames per second
RenderFpsSet == {0, 500, 1000}

FlashRows == {<<t, "cell_0", "appear">> : t \in 0..MaxFlashTs}

InitRender ==
    /\ pc = "start"
    /\ MergeIdle /\ DetectIdle /\ GridIdle /\ ExtractIdle /\ MainIdle /\ MadIdle
    /\ RembgIdle /\ StreamIdle
    /\ \E opened \in BOOLEAN : video = [opened |-> opened]
    /\ grid_hint = <<4, 2>> /\ rects = <<>>
    /\ flash_events \in SeqsUpTo(FlashRows, MaxFlashEvents)
    /\ flash_ms \in (-1)..MaxFlashMs
    /\ render_fps \in RenderFpsSet
    /\ n_frames = MaxFrames
    /\ windows = <<>> /\ w_idx = 0 /\ frame_idx = 0 /\ flashed = <<>>

NextRender == RenderOpen \/ RenderFrame \/ RenderEnd

SpecRender == InitRender /\ [][NextRender]_vars

\* frame f (0-based) lies in the window of event n
InWindowOf(f, n) ==
    LET rate == RenderFps(render_fps)
        ts   == flash_events[n][1]
    IN  /\ (2 * ts - flash_ms) * rate <= f * 2000
        /\ f * 2000 <= (2 * ts + flash_ms) * rate

\* C25: the forward window-pointer scan of render_flashes is plain
\* membership: whatever the order of the events and however their windows
\* overlap or touch, the frame with timestamp t is highlighted if and only if
\* ts - flash_ms / 2 <= t <= ts + flash_ms / 2 for some event timestamp ts.
C25_ScanIsMembership ==
    \A f \in DOMAIN flashed :
        flashed[f] <=> \E n \in DOMAIN flash_events : InWindowOf(f - 1, n)

\* events out of order with overlapping windows: a frame is highlighted only
\* by the event listed first (the later one), a frame by both, and a frame
\* by none
C25_Witness ==
    /\ pc = "done"
    /\ Len(flash_events) >= 2
    /\ flash_events[1][1] > flash_events[2][1]
    /\ \E f \in DOMAIN flashed :
          flashed[f] /\ InWindowOf(f - 1, 1) /\ ~InWindowOf(f - 1, 2)
    /\ \E f \in DOMAIN flashed :
          flashed[f] /\ InWindowOf(f - 1, 1) /\ InWindowOf(f - 1, 2)
    /\ \E f \in DOMAIN flashed : ~flashed[f]

----------------------------------------------------------------------------
(* RembgSessionManager (src/backend/app.py, lines 49-85): request threads  *)
(* that call get_session and the threading.Timer threads that run          *)
(* _cleanup.  A timer is "waiting" until its interval has passed, "fired"  *)
(* once its thread has found it not cancelled and goes on to call          *)
(* _cleanup, "cancelled" when cancel() came first, "done" after _cleanup.  *)
(* Time is counted in ticks; the timeout is Timeout ticks.                 *)

NumThreads == 2    \* request threads
MaxCalls   == 3    \* get_session calls in a run
Timeout    == 2    \* self._timeout, in ticks
MaxTime    == 6    \* the clock stops here

Threads == 1..NumThreads

\* calls begun so far: those that took the lock and those waiting for it
CallsBegun ==
    Len(entered_at) + Cardinality({th \in Threads : callers[th] = "wait"})

\* a request thread calls get_session and waits for the lock (line 58)
Call(th) ==
    /\ callers[th] = "idle"
    /\ CallsBegun < MaxCalls
    /\ now + Timeout <= MaxTime
    /\ callers' = [callers EXCEPT ![th] = "wait"]
    /\ UNCHANGED <<has_rembg, session, last_accessed, lock, cleanup_timer,
                   timers, now, entered_at>>
    /\ UNCHANGED <<pc, mergeVars, detectVars, gridVars, locateVars, extractVars,
                   mainVars, madVars, renderVars, streamVars>>

\* lines 58-59: the lock is taken and the access time stamped
Enter(th) ==
    /\ callers[th] = "wait"
    /\ lock = 0
    /\ lock' = th
    /\ last_accessed' = now
    /\ entered_at' = Append(entered_at, now)
    /\ callers' = [callers EXCEPT ![th] = "inside"]
    /\ UNCHANGED <<has_rembg, session, cleanup_timer, timers, now>>
    /\ UNCHANGED <<pc, mergeVars, detectVars, gridVars, locateVars, extractVars,
                   mainVars, madVars, renderVars, streamVars>>

\* threading.Timer.cancel(): stops a timer that is still waiting
Cancel(tms, t) ==
    IF t # 0 /\ tms[t].state = "waiting"
    THEN [tms EXCEPT ![t].state = "cancelled"]
    ELSE tms

\* _schedule_cleanup (lines 71-77): the timers after the call
ScheduleCleanup(tms, t, time) ==
    Append(Cancel(tms, t), [deadline |-> time + Timeout, state |-> "waiting"])

\* lines 60-69: the session is created if there is none, the cleanup timer
\* restarted, the lock released; without rembg the call returns None, and
\* rembg_new_session may raise
Return(th) ==
    /\ callers[th] = "inside"
    /\ \/ /\ session = "None" /\ ~has_rembg
          /\ UNCHANGED <<session, cleanup_timer, timers>>
       \/ /\ session = "None" /\ has_rembg
          /\ UNCHANGED <<session, cleanup_timer, timers>>
       \/ /\ session # "None" \/ has_rembg
          /\ session' = "u2net"
          /\ timers' = ScheduleCleanup(timers, cleanup_timer, now)
          /\ cleanup_timer' = Len(timers) + 1
    /\ lock' = 0
    /\ callers' = [callers EXCEPT ![th] = "idle"]
    /\ UNCHANGED <<has_rembg, last_accessed, now, entered_at>>
    /\ UNCHANGED <<pc, mergeVars, detectVars, gridVars, locateVars, extractVars,
                   mainVars, madVars, renderVars, streamVars>>

\* the interval of timer t has passed and it was not cancelled: its thread
\* goes on to call _cleanup
TimerFire(t) ==
    /\ t \in DOMAIN timers
    /\ timers[t].state = "waiting"
    /\ now >= timers[t].deadline
    /\ timers' = [timers EXCEPT ![t].state = "fired"]
    /\ UNCHANGED <<has_rembg, session, last_accessed, lock, cleanup_timer,
                   now, callers, entered_at>>
    /\ UNCHANGED <<pc, mergeVars, detectVars, gridVars, locateVars, extractVars,
                   mainVars, madVars, renderVars, streamVars>>

\* variant of Cleanup that frees the session whatever the access time
Cleanup_nocheck(t) ==
    /\ t \in DOMAIN timers
    /\ timers[t].state = "fired"
    /\ lock = 0
    /\ session' = "None"
    /\ timers' = [timers EXCEPT ![t].state = "done"]
    /\ UNCHANGED <<has_rembg, last_accessed, lock, cleanup_timer, now, callers,
                   entered_at>>
    /\ UNCHANGED <<pc, mergeVars, detectVars, gridVars, locateVars, extractVars,
                   mainVars, madVars, renderVars, streamVars>>

\* variant of Cleanup that wants more than the timeout to have passed
Cleanup_strict(t) ==
    /\ t \in DOMAIN timers
    /\ timers[t].state = "fired"
    /\ lock = 0
    /\ session' = IF session # "None" /\ now - last_accessed > Timeout
                  THEN "None" ELSE session
    /\ timers' = [timers EXCEPT ![t].state = "done"]
    /\ UNCHANGED <<has_rembg, last_accessed, lock, cleanup_timer, now, callers,
                   entered_at>>
    /\ UNCHANGED <<pc, mergeVars, detectVars, gridVars, locateVars, extractVars,
                   mainVars, madVars, renderVars, streamVars>>

\* _cleanup (lines 79-84) run by the thread of timer t: under the lock, the
\* session is freed if the last access is at least the timeout ago
Cleanup(t) ==
    /\ t \in DOMAIN timers
    /\ timers[t].state = "fired"
    /\ lock = 0
    /\ session' = IF session # "None" /\ now - last_accessed >= Timeout
                  THEN "None" ELSE session
    /\ timers' = [timers EXCEPT ![t].state = "done"]
    /\ UNCHANGED <<has_rembg, last_accessed, lock, cleanup_timer, now, callers,
                   entered_at>>
    /\ UNCHANGED <<pc, mergeVars, detectVars, gridVars, locateVars, extractVars,
                   mainVars, madVars, renderVars, streamVars>>

\* a call is under way: a thread waits for the lock or holds it
CallUnderWay == \E th \in Threads : callers[th] # "idle"

\* time passes; the clock stops at MaxTime, and early enough for the timer
\* of a call under way to run out before that
Tick ==
    /\ now < MaxTime
    /\ CallUnderWay => now + 1 + Timeout <= MaxTime
    /\ now' = now + 1
    /\ UNCHANGED <<has_rembg, session, last_accessed, lock, cleanup_timer,
                   timers, callers, entered_at>>
    /\ UNCHANGED <<pc, mergeVars, detectVars, gridVars, locateVars, extractVars,
                   mainVars, madVars, renderVars, streamVars>>

\* the manager after __init__ (lines 50-55), rembg installed or not
InitRembg ==
    /\ pc = "serving"
    /\ MergeIdle /\ DetectIdle /\ GridIdle /\ LocateIdle /\ ExtractIdle
    /\ MainIdle /\ MadIdle /\ RenderIdle /\ StreamIdle
    /\ has_rembg \in BOOLEAN
    /\ session = "None"
    /\ last_accessed = 0
    /\ lock = 0
    /\ cleanup_timer = 0
    /\ timers = <<>>
    /\ now = 0
    /\ callers = [th \in Threads |-> "idle"]
    /\ entered_at = <<>>

NextRembg ==
    \/ \E th \in Threads : Call(th) \/ Enter(th) \/ Return(th)
    \/ \E t \in 1..MaxCalls : TimerFire(t) \/ Cleanup(t)
    \/ Tick

SpecRembg == InitRembg /\ [][NextRembg]_vars

\* the scheduling the interpreter guarantees: time passes, a thread that
\* waits for a free lock gets it, a thread inside get_session leaves it, a
\* timer whose interval has passed runs its callback
FairRembg ==
    /\ WF_vars(Tick)
    /\ \A th \in Threads : WF_vars(Enter(th)) /\ WF_vars(Return(th))
    /\ \A t \in 1..MaxCalls : WF_vars(TimerFire(t)) /\ WF_vars(Cleanup(t))

SpecRembgFair == SpecRembg /\ FairRembg

\* the session is freed in this step
Freed == session # "None" /\ session' = "None"

\* C28: the session is never freed while it was used recently: under every
\* interleaving of get_session calls and _cleanup callbacks, stale ones
\* included, the session is set to None only when at least the timeout has
\* passed since the most recent get_session call (a call counts from the
\* moment it holds the lock).
C28_FreedOnlyWhenIdle ==
    [][Freed => \A k \in DOMAIN entered_at : now - entered_at[k] >= Timeout]_vars

\* the session has been freed by its last timer, after a stale callback:
\* an earlier timer fired while the next call, begun before that timer's
\* deadline, held the lock, so its callback ran after that call
C28_Witness ==
    /\ session = "None"
    /\ Len(entered_at) = Len(timers)
    /\ \A th \in Threads : callers[th] = "idle"
    /\ cleanup_timer > 1
    /\ timers[cleanup_timer].state = "done"
    /\ \E t \in 1..(cleanup_timer - 1) :
          /\ timers[t].state = "done"
          /\ entered_at[t + 1] < timers[t].deadline

\* the timer self._cleanup_timer refers to is pending
TimerPending ==
    /\ cleanup_timer # 0
    /\ timers[cleanup_timer].state \in {"waiting", "fired"}

\* C29: an idle session is freed in the end: while there is a session and no
\* get_session call holds the lock, the current cleanup timer is pending,
\* and unless a further get_session call comes the session is eventually set
\* to None, whatever timers were cancelled or replaced before.
C29_IdleSessionFreed ==
    /\ []((session # "None" /\ lock = 0) => TimerPending)
    /\ \A c \in 0..MaxCalls :
          (session # "None" /\ Len(entered_at) = c)
              ~> (session = "None" \/ Len(entered_at) > c)

\* a session freed by the third timer, after the first timer was cancelled
\* and the second one fired during the third call and ran its callback too
\* early
C29_Witness ==
    /\ session = "None"
    /\ Len(timers) = 3 /\ Len(entered_at) = 3
    /\ timers[1].state = "cancelled"
    /\ timers[2].state = "done"
    /\ timers[3].state = "done"
    /\ entered_at[3] < timers[2].deadline

----------------------------------------------------------------------------
(* /api/android-log and /api/android-log/stream (src/backend/app.py, lines *)
(* 1068-1200): the table logs under POST and DELETE requests, and one      *)
(* connected stream generator.  A row is modelled by its id, the one       *)
(* column the generator selects and orders by.                             *)

MaxLogs    == 4    \* POST requests in a run
MaxDeletes == 2    \* DELETE requests in a run
BatchLimit == 2    \* the LIMIT of the stream's query (50 in the code)

\* id INTEGER PRIMARY KEY AUTOINCREMENT (line 134): the id of a new row is
\* one more than the largest id the table ever held
NextId(tbl, seq) == seq + 1

\* ORDER BY id ASC
RECURSIVE Ascending(_)
Ascending(S) ==
    IF S = {} THEN <<>>
    ELSE LET least == CHOOSE x \in S : \A y \in S : x <= y
         IN  <<least>> \o Ascending(S \ {least})

\* variant of NewerRows that selects id >= last_id
NewerRows_atleast(tbl, last) ==
    LET found == Ascending({r \in tbl : r >= last})
    IN  SubSeq(found, 1, Min2(BatchLimit, Len(found)))

\* SELECT * FROM logs WHERE id > ? ORDER BY id ASC LIMIT 50 (lines 1163-1166 of src/backend/app.py)
NewerRows(tbl, last) ==
    LET found == Ascending({r \in tbl : r > last})
    IN  SubSeq(found, 1, Min2(BatchLimit, Len(found)))

\* POST (lines 1070-1100): INSERT INTO logs and commit
Post ==
    /\ sqlite_seq < MaxLogs
    /\ logs' = logs \cup {NextId(logs, sqlite_seq)}
    /\ sqlite_seq' = NextId(logs, sqlite_seq)
    /\ UNCHANGED <<deletes, last_id, fetched, stream_pc, delivered>>
    /\ UNCHANGED <<pc, mergeVars, detectVars, gridVars, locateVars, extractVars,
                   mainVars, madVars, renderVars, rembgVars>>

\* DELETE (lines 1102-1110): DELETE FROM logs and commit
DeleteAll ==
    /\ deletes < MaxDeletes
    /\ logs' = {}
    /\ deletes' = deletes + 1
    /\ UNCHANGED <<sqlite_seq, last_id, fetched, stream_pc, delivered>>
    /\ UNCHANGED <<pc, mergeVars, detectVars, gridVars, locateVars, extractVars,
                   mainVars, madVars, renderVars, rembgVars>>

\* lines 1160-1169 and 1180-1182: the query; without rows a heartbeat is
\* yielded
Query ==
    /\ stream_pc = "query"
    /\ fetched' = NewerRows(logs, last_id)
    /\ stream_pc' = IF fetched' = <<>> THEN "sleep" ELSE "yield"
    /\ UNCHANGED <<logs, sqlite_seq, deletes, last_id, delivered>>
    /\ UNCHANGED <<pc, mergeVars, detectVars, gridVars, locateVars, extractVars,
                   mainVars, madVars, renderVars, rembgVars>>

\* lines 1170-1179: one iteration of "for row in logs_db"
Yield ==
    /\ stream_pc = "yield"
    /\ last_id' = Head(fetched)
    /\ delivered' = Append(delivered, Head(fetched))
    /\ fetched' = Tail(fetched)
    /\ stream_pc' = IF fetched' = <<>> THEN "sleep" ELSE "yield"
    /\ UNCHANGED <<logs, sqlite_seq, deletes>>
    /\ UNCHANGED <<pc, mergeVars, detectVars, gridVars, locateVars, extractVars,
                   mainVars, madVars, renderVars, rembgVars>>

\* lines 1184-1185: time.sleep(1), then the next round of the loop
Sleep ==
    /\ stream_pc = "sleep"
    /\ stream_pc' = "query"
    /\ UNCHANGED <<logs, sqlite_seq, deletes, last_id, fetched, delivered>>
    /\ UNCHANGED <<pc, mergeVars, detectVars, gridVars, locateVars, extractVars,
                   mainVars, madVars, renderVars, rembgVars>>

\* lines 1186-1187: the client goes away, GeneratorExit ends the generator
Disconnect ==
    /\ stream_pc # "closed"
    /\ stream_pc' = "closed"
    /\ fetched' = <<>>
    /\ UNCHANGED <<logs, sqlite_seq, deletes, last_id, delivered>>
    /\ UNCHANGED <<pc, mergeVars, detectVars, gridVars, locateVars, extractVars,
                   mainVars, madVars, renderVars, rembgVars>>

\* a client connects to a table that is empty or holds rows already
InitStream ==
    /\ pc = "serving"
    /\ MergeIdle /\ DetectIdle /\ GridIdle /\ LocateIdle /\ ExtractIdle
    /\ MainIdle /\ MadIdle /\ RenderIdle /\ RembgIdle
    /\ sqlite_seq \in 0..1
    /\ logs \in SUBSET (1..sqlite_seq)
    /\ deletes = 0
    /\ last_id = 0
    /\ fetched = <<>>
    /\ stream_pc = "query"
    /\ delivered = <<>>

NextStream == Post \/ DeleteAll \/ Query \/ Yield \/ Sleep \/ Disconnect

SpecStream == InitStream /\ [][NextStream]_vars

\* the generator runs as long as the client reads: none of its steps is
\* delayed for ever
FairStream == WF_vars(Query) /\ WF_vars(Yield) /\ WF_vars(Sleep)

SpecStreamFair == SpecStream /\ FairStream

\* the ids delivered so far
DeliveredIds == {delivered[n] : n \in DOMAIN delivered}

\* C30: the stream delivers log rows in strictly increasing id order, so
\* never the same row twice, under every interleaving of POST inserts and
\* DELETE-all requests; and a row that stays in the table is eventually
\* delivered to a stream that stays connected.
C30_StreamInOrder ==
    /\ [](\A m, n \in DOMAIN delivered : m < n => delivered[m] < delivered[n])
    /\ \A r \in 1..MaxLogs :
          (r \in logs) ~> (r \notin logs \/ r \in DeliveredIds \/ stream_pc = "closed")

\* rows delivered in more than one batch, before and after a DELETE that
\* took away a row the stream had not seen; every row still in the table has
\* been delivered
C30_Witness ==
    /\ deletes >= 1
    /\ Len(delivered) > BatchLimit
    /\ \E r \in 1..last_id : r \notin DeliveredIds
    /\ logs # {}
    /\ logs \subseteq DeliveredIds
    /\ stream_pc # "closed"

====
